---- MODULE Spec2Model ----
(***************************************************************************)
(* A model of test-runner-core: the obso Emitter, the fsm-base             *)
(* StateMachine, the bounded-concurrency Queue, the Test unit with its     *)
(* timeout race, the TestRunnerCore orchestrator, and the TestRunner of    *)
(* dist/tests.js that is a StateMachine.                                   *)
(*                                                                         *)
(* Every component has a specification of its own (SpecStateMachine, ...). *)
(* The variables of the components a specification does not exercise stay *)
(* at their idle values.                                                   *)
(***************************************************************************)
EXTENDS Integers, Sequences, FiniteSets, TLC

VARIABLES
  validMoves,   \* StateMachine._validMoves: sequence of [from, to]
  state,        \* StateMachine state (the _state WeakMap entry of the object)
  lastSet,      \* the most recent setState call and what it did
  version,      \* which of the two Emitter sources is running
  parent,       \* Emitter.parent of every emitter (0: none)
  listeners,    \* Emitter._listeners of every emitter
  registry,     \* every listener record ever created by on(), by identity
  stack,        \* the emit / emitTarget calls in progress, innermost last
  lastEmit,     \* the emit call (at one emitter) that returned most recently
  invoked,      \* how often each listener's handler has been called
  seen,         \* emissions of its own event completed at its emitter since on()
  emitLog,      \* what else has been done to the emitters so far
  queue,        \* a Queue: its ceiling, pending jobs, in-flight count, history
  jobs,         \* the state of the future of every job of the queue
  processing,   \* the state of the future process() returned
  test,         \* a Test: its options, its test function, its state
  now,          \* the time, in timer units, since the test was created
  run,          \* a call of test.run(): its promises and its timer
  tom,          \* the tree a runner was constructed with
  nodes,        \* per node: its run(), its job and the level below it
  runner,       \* the fields of the runner and its start() call
  history       \* the states the runner has gone through

smVars == <<validMoves, state, lastSet>>

emVars == <<version, parent, listeners, registry, stack, lastEmit, invoked,
            seen, emitLog>>

quVars == <<queue, jobs, processing>>

teVars == <<test, now, run>>

coVars == <<tom, nodes, runner, history>>

vars == <<validMoves, state, lastSet, version, parent, listeners, registry,
          stack, lastEmit, invoked, seen, emitLog, queue, jobs, processing,
          test, now, run, tom, nodes, runner,
          history>>

----------------------------------------------------------------------------
(* Bounds *)

MaxMoves == 2

NumEmitters == 2

MaxListeners == 3

MaxEmits == 2

MaxRemoves == 1

MaxNested == 1

MaxJobs == 4

MaxCeiling == 3

MaxTimeout == 3

MaxDelay == 4

MaxTime == 5

MaxNodes == 3

MaxConcurrency == 2

MaxLeaves == 3

MaxStarts == 2

\* The branches below the root of a tree of branches.
MaxBranches == 2

\* The ancestors of the lowest emitter of a chain of emitters.
MaxDepth == 2

\* The tests registered with a TestRunner that is an Emitter.
MaxTests == 3

----------------------------------------------------------------------------
(* Helpers *)

Min(a, b) == IF a < b THEN a ELSE b

NonEmptySubsets(S) == SUBSET S \ {{}}

----------------------------------------------------------------------------
(* Emitter (obso). Two sources: the one with emitTarget (dist/tests.js:33) *)
(* and the earlier one (part_001:86, dist/tests.js:724), here "legacy".    *)

Wildcard == "__ALL__"

EventNames == {"E", "F"}

EmitArgs == {<<"x">>}

Emitters == 1..NumEmitters

\* The record on() pushes. Every on() call is given a handler function of its
\* own, so the handler's identity and the record's identity are both id.
Listener(id, eventName, once) == [id |-> id, eventName |-> eventName, once |-> once]

\* Array.prototype.indexOf / findIndex by identity: 0-based, -1 when absent.
indexOf(ls, id) ==
  IF \E k \in 1..Len(ls) : ls[k].id = id
  THEN (CHOOSE k \in 1..Len(ls) :
          ls[k].id = id /\ \A j \in 1..(k - 1) : ls[j].id # id) - 1
  ELSE -1

\* Array.prototype.splice(start, 1): a negative start counts from the end.
splice(ls, start) ==
  LET from == IF start < 0 THEN (IF Len(ls) + start < 0 THEN 0 ELSE Len(ls) + start)
              ELSE Min(start, Len(ls))
  IN  IF from >= Len(ls) THEN ls
      ELSE [j \in 1..(Len(ls) - 1) |-> IF j <= from THEN ls[j] ELSE ls[j + 1]]

\* removeEventListener (eventName, handler)
removeEventListener(ls, eventName, handler) ==
  IF Len(ls) = 0 THEN ls
  ELSE LET found == {k \in 1..Len(ls) :
                       ls[k].eventName = eventName /\ ls[k].id = handler}
           index == IF found = {} THEN -1
                    ELSE (CHOOSE k \in found : \A j \in found : k <= j) - 1
       IN  IF index > -1 THEN splice(ls, index) ELSE ls

\* listener.eventName === '__ALL__' || listener.eventName === eventName
Matches(l, eventName) == l.eventName = Wildcard \/ l.eventName = eventName

\* Every handler is called with the arguments of the emit call.
HandlerArgs_NoEventName(l, eventName, args) == args

\* The arguments the handler is called with.
HandlerArgs(l, eventName, args) ==
  IF l.eventName = Wildcard THEN <<eventName>> \o args ELSE args

\* How far the loop of a call can go: for...of asks the array's length before
\* every element, forEach visits the indexes below the length it started with
\* that are still present.
LoopLimit(f) ==
  IF version = "legacy" THEN Min(f.len, Len(listeners[f.em]))
  ELSE Len(listeners[f.em])

\* The index of the next listener the loop of call f invokes (0: none is left).
NextMatch(f) ==
  LET cand == {k \in f.i..LoopLimit(f) : Matches(listeners[f.em][k], f.name)}
  IN  IF cand = {} THEN 0 ELSE CHOOSE k \in cand : \A j \in cand : k <= j

\* toRemove.push for the listeners at indexes from..to that the loop passes
\* without invoking them: the legacy source pushes every once listener it
\* visits, matching or not.
RECURSIVE PassedOnce(_, _, _)
PassedOnce(ls, from, to) ==
  IF from > to THEN <<>>
  ELSE (IF version = "legacy" /\ ls[from].once THEN <<ls[from].id>> ELSE <<>>)
       \o PassedOnce(ls, from + 1, to)

\* The once listeners are never removed.
RemoveAll_KeepsOnce(ls, toRemove) == ls

\* toRemove.forEach(listener => _listeners.splice(_listeners.indexOf(listener), 1))
RECURSIVE RemoveAll(_, _)
RemoveAll(ls, toRemove) ==
  IF toRemove = <<>> THEN ls
  ELSE RemoveAll(splice(ls, indexOf(ls, Head(toRemove))), Tail(toRemove))

\* A call of emit (target = 0) or emitTarget on emitter em at its first line.
\* path holds, for a call made to bubble an event up, what the calls on the
\* emitters below have done.
Frame(em, eventName, args, target) ==
  [em       |-> em,
   name     |-> eventName,
   args     |-> args,
   target   |-> target,
   i        |-> 1,
   len      |-> Len(listeners[em]),
   toRemove |-> <<>>,
   snap     |-> listeners[em],
   calls    |-> <<>>,
   removed  |-> 0,
   nested   |-> 0,
   path     |-> <<>>]

\* What a call that has returned leaves for the call that bubbles the event up.
Level(f) == [em |-> f.em, snap |-> f.snap, calls |-> f.calls]

\* An emitter that bubbles an event to its parent only when the event is its
\* own.
Bubble_OwnEventsOnly(f, up) ==
  IF parent[f.em] # 0 /\ f.path = <<>>
  THEN << [Frame(parent[f.em], f.name, f.args, up)
             EXCEPT !.path = Append(f.path, Level(f))] >>
  ELSE << >>

\* if (this.parent) this.parent.emitTarget(eventName, target || this, ...args)
\* and, in the legacy source, this.parent.emit(eventName, ...args): the call
\* made on the parent, if there is one.
Bubble(f, up) ==
  IF parent[f.em] # 0
  THEN << [Frame(parent[f.em], f.name, f.args, up)
             EXCEPT !.path = Append(f.path, Level(f))] >>
  ELSE << >>

Top == stack[Len(stack)]

Pop(st) == SubSeq(st, 1, Len(st) - 1)

----------------------------------------------------------------------------
(* StateMachine (fsm-base), dist/tests.js                                  *)

\* The value of _state.get(this) before any state was set.
Undefined == "undefined"

StateNames == {"a", "b"}

Event(name, args) == [name |-> name, args |-> args]

\* A move after the constructor's normalisation: from and to are arrays. Only
\* indexOf(...) > -1 is ever asked of them, so each is kept as a set.
Moves == [from : NonEmptySubsets(StateNames \cup {Undefined}),
          to   : NonEmptySubsets(StateNames)]

\* this._validMoves.some(move => move.to.indexOf(state) > -1)
validTo(moves, target) == \E k \in 1..Len(moves) : target \in moves[k].to

\* this._validMoves.forEach(move => { ... }): this.state is read again in every
\* iteration, prevState was read once before the loop.
RECURSIVE MovesForEach(_, _, _, _, _, _)
MovesForEach(moves, k, target, args, prevState, acc) ==
  IF k > Len(moves) THEN acc
  ELSE IF acc.state \in moves[k].from /\ target \in moves[k].to
       THEN MovesForEach(moves, k + 1, target, args, prevState,
              [state   |-> target,
               moved   |-> TRUE,
               commits |-> acc.commits + 1,
               emitted |-> acc.emitted \o
                             << Event("state", <<target, prevState>>),
                                Event(target, args) >>])
       ELSE MovesForEach(moves, k + 1, target, args, prevState, acc)

\* setState with a loop that does not look at move.from.
setState_IgnoresFrom(moves, cur, target, args) ==
  IF cur = target
  THEN [state |-> cur, emitted |-> <<>>, commits |-> 0, error |-> "none"]
  ELSE IF ~validTo(moves, target)
  THEN [state |-> cur, emitted |-> <<>>, commits |-> 0, error |-> "INVALID_MOVE"]
  ELSE [state   |-> target,
        emitted |-> << Event("state", <<target, cur>>), Event(target, args) >>,
        commits |-> 1,
        error   |-> "none"]

\* setState that commits the new state before it finds that no move permits it.
setState_CommitsThenThrows(moves, cur, target, args) ==
  IF cur = target
  THEN [state |-> cur, emitted |-> <<>>, commits |-> 0, error |-> "none"]
  ELSE IF ~validTo(moves, target)
  THEN [state |-> cur, emitted |-> <<>>, commits |-> 0, error |-> "INVALID_MOVE"]
  ELSE LET r == MovesForEach(moves, 1, target, args, cur,
                  [state |-> cur, moved |-> FALSE, commits |-> 0, emitted |-> <<>>])
       IN  [state   |-> target,
            emitted |-> r.emitted,
            commits |-> r.commits,
            error   |-> IF r.moved THEN "none" ELSE "INVALID_MOVE"]

\* setState without the early return for the current state.
setState_NoEarlyReturn(moves, cur, target, args) ==
  IF ~validTo(moves, target)
  THEN [state |-> cur, emitted |-> <<>>, commits |-> 0, error |-> "INVALID_MOVE"]
  ELSE LET r == MovesForEach(moves, 1, target, args, cur,
                  [state |-> cur, moved |-> FALSE, commits |-> 0, emitted |-> <<>>])
       IN  [state   |-> r.state,
            emitted |-> r.emitted,
            commits |-> r.commits,
            error   |-> IF r.moved THEN "none" ELSE "INVALID_MOVE"]

\* setState (state, ...args): the state after the call, the events it emitted
\* in order, the number of _state.set calls, and the error it threw, if any.
setState(moves, cur, target, args) ==
  IF cur = target
  THEN [state |-> cur, emitted |-> <<>>, commits |-> 0, error |-> "none"]
  ELSE IF ~validTo(moves, target)
  THEN [state |-> cur, emitted |-> <<>>, commits |-> 0, error |-> "INVALID_MOVE"]
  ELSE LET r == MovesForEach(moves, 1, target, args, cur,
                  [state |-> cur, moved |-> FALSE, commits |-> 0, emitted |-> <<>>])
       IN  [state   |-> r.state,
            emitted |-> r.emitted,
            commits |-> r.commits,
            error   |-> IF r.moved THEN "none" ELSE "INVALID_MOVE"]

NoCall == [called |-> FALSE]

SMArgs == {<<>>, <<"x">>}

----------------------------------------------------------------------------
(* Queue (lib/queue.mjs), as section 4.3 describes it: a list of job thunks  *)
(* and a ceiling; process() starts jobs first in, first out while fewer than *)
(* the ceiling are in flight, and starts more whenever one settles.          *)

\* A ceiling no job list reaches.
Infinity == MaxJobs + MaxCeiling + 1

\* new Queue(jobs, maxConcurrency) for a list of m thunks.
Queue(m, maxConcurrency) ==
  [max      |-> maxConcurrency,
   pending  |-> [j \in 1..m |-> j],
   inflight |-> 0,
   started  |-> <<>>,
   settled  |-> 0]

\* A loop that starts the first pending job again for every free slot and
\* pops it only with the last.
RECURSIVE StartJobs_KeepsPending(_)
StartJobs_KeepsPending(q) ==
  IF q.inflight < q.max /\ q.pending # <<>>
  THEN StartJobs_KeepsPending(
         [q EXCEPT !.started  = Append(@, Head(q.pending)),
                   !.pending  = IF q.inflight + 1 < q.max THEN @ ELSE Tail(@),
                   !.inflight = @ + 1])
  ELSE q

\* A loop that pops the last pending job instead of the first.
RECURSIVE StartJobs_LastFirst(_)
StartJobs_LastFirst(q) ==
  IF q.inflight < q.max /\ q.pending # <<>>
  THEN StartJobs_LastFirst(
         [q EXCEPT !.started  = Append(@, q.pending[Len(q.pending)]),
                   !.pending  = SubSeq(@, 1, Len(@) - 1),
                   !.inflight = @ + 1])
  ELSE q

\* A settlement that frees the slot and starts nothing.
JobSettled_NoRefill(q) ==
  [q EXCEPT !.inflight = @ - 1, !.settled = @ + 1]

\* The loop that fills the free slots and stops one job above the ceiling.
RECURSIVE StartJobs_OneTooMany(_)
StartJobs_OneTooMany(q) ==
  IF q.inflight <= q.max /\ q.pending # <<>>
  THEN StartJobs_OneTooMany([q EXCEPT !.started  = Append(@, Head(q.pending)),
                                     !.pending  = Tail(@),
                                     !.inflight = @ + 1])
  ELSE q

\* While in-flight < N and pending jobs remain, pop the next pending job and
\* start it, incrementing in-flight.
RECURSIVE StartJobs(_)
StartJobs(q) ==
  IF q.inflight < q.max /\ q.pending # <<>>
  THEN StartJobs([q EXCEPT !.started  = Append(@, Head(q.pending)),
                           !.pending  = Tail(@),
                           !.inflight = @ + 1])
  ELSE q

\* On a job's settlement, success or failure: decrement in-flight and start
\* more jobs until the ceiling or exhaustion is reached again.
JobSettled(q) ==
  StartJobs([q EXCEPT !.inflight = @ - 1, !.settled = @ + 1])

\* Every job has settled.
AllSettled(q) == q.pending = <<>> /\ q.inflight = 0

\* A process() that fails as soon as one of its jobs has failed.
Processing_RejectsOnFailure(q, js) ==
  IF \E j \in 1..Len(js) : js[j] = "failed" THEN "rejected"
  ELSE IF AllSettled(q) THEN "fulfilled" ELSE "running"

\* The future process() returned, for the outcomes js of the jobs: it fulfils
\* once every job has settled; a failure of a job is captured, not rethrown.
Processing(q, js) ==
  IF AllSettled(q) THEN "fulfilled" ELSE "running"

\* The jobs that q2 has started and q1 had not.
NewlyStarted(q1, q2) ==
  {q2.started[k] : k \in (Len(q1.started) + 1)..Len(q2.started)}

----------------------------------------------------------------------------
(* Test and raceTimeout (part_001:7-58)                                    *)

\* Object.assign({ timeout: 10000 }, options)
DefaultTimeout == 10000

Values == {"true", "ok"}

\* new Error(message); ms is the number a timeout message is built from.
Error(message, ms) == [message |-> message, ms |-> ms]

\* new Error(msg || `Timeout expired [${ms}]`), raceTimeout being called with
\* ms alone.
TimeoutError(ms) == Error("Timeout expired [ms]", ms)

\* The states of a promise.
Pending == [status |-> "pending"]

Fulfilled(value) == [status |-> "fulfilled", value |-> value]

Rejected(reason) == [status |-> "rejected", reason |-> reason]

\* A promise whose resolve or reject replaces what it had settled with.
Settle_Overwrites(promise, outcome) == outcome

\* resolve(value) or reject(reason) of a promise, and the reaction
\* Promise.race puts on each of its promises: a settled promise stays as it is.
Settle(promise, outcome) ==
  IF promise.status = "pending" THEN outcome ELSE promise

\* The settled promise a test function's outcome stands for.
Outcome(fn) == IF fn.ok THEN Fulfilled(fn.value) ELSE Rejected(Error(fn.value, 0))

Never == -1

\* What a test function does when called: return a plain value, throw, or
\* return a promise that settles after `delay` timer units (or never).
TestFns ==
  [kind : {"returns"}, ok : {TRUE}, value : Values, delay : {0}]
    \cup [kind : {"throws"}, ok : {FALSE}, value : {"failed"}, delay : {0}]
    \cup [kind : {"promise"}, ok : {TRUE}, value : Values,
          delay : (0..MaxDelay) \cup {Never}]
    \cup [kind : {"promise"}, ok : {FALSE}, value : {"failed"},
          delay : (0..MaxDelay) \cup {Never}]

\* The options a Test is constructed with: none, or a timeout.
TestOptions == {[timeout |-> t] : t \in {DefaultTimeout} \cup (1..MaxTimeout)}

\* An executor that lets a synchronous throw of the test function pass.
Executor_ThrowNotCaught(fn) ==
  [state        |-> IF fn.kind = "throws" THEN "pending" ELSE "passed",
   testFnResult |-> IF fn.kind = "returns" THEN Fulfilled(fn.value) ELSE Pending]

\* The executor of testFnResult: the test function is called, this.state is
\* set, and a plain value resolves and a throw rejects the promise at once.
Executor(fn) ==
  [state        |-> IF fn.kind = "throws" THEN "failed" ELSE "passed",
   testFnResult |-> CASE fn.kind = "returns" -> Fulfilled(fn.value)
                      [] fn.kind = "throws"  -> Rejected(Error(fn.value, 0))
                      [] fn.kind = "promise" -> Pending]

NotRun == [called |-> FALSE]

----------------------------------------------------------------------------
(* TestRunnerCore (part_001:445-645). The tree (test-object-model) is the  *)
(* collaborator section 6 describes: every node has ordered children, a    *)
(* concurrency ceiling and a run() that returns a future and signals pass, *)
(* fail, skipped or ignored.                                               *)

Root == 1

\* super('pending', [ ... ])
CoreInitialState == "pending"

CoreMoves ==
  << [from |-> {"pending"},     to |-> {"in-progress"}],
     [from |-> {"in-progress"}, to |-> {"pass"}],
     [from |-> {"in-progress"}, to |-> {"fail"}] >>

\* A node is a group (no test function), a test, or a test marked as skipped.
NodeKinds == {"group", "test", "skip"}

\* The trees of n nodes: node 1 is the root, the parent of a node comes before
\* it, and the children of a node are ordered by their number. The ceiling of
\* a node without children bounds an empty job list and is kept at 1.
Toms(n) ==
  {t \in [1..n -> [parent : 0..(n - 1), kind : NodeKinds,
                   maxConcurrency : 1..MaxConcurrency]] :
     /\ t[Root].parent = 0
     /\ \A c \in 2..n : t[c].parent \in 1..(c - 1)
     /\ \A c \in 1..n : (\A d \in 1..n : t[d].parent # c)
                            => t[c].maxConcurrency = 1}

\* [...tom.children]
Children(n) ==
  SelectSeq([c \in 1..Len(tom) |-> c], LAMBDA c : tom[c].parent = n)

\* The place of the job of node c in the job list of its parent.
JobOf(c) ==
  Cardinality({d \in 1..c : tom[d].parent = tom[c].parent})

\* A count that takes every node of the tree for a test.
testCount_CountsGroups == Len(tom)

\* Array.from(this.tom).filter(t => t.testFn).length
testCount == Cardinality({n \in 1..Len(tom) : tom[n].kind # "group"})

\* What the run() of a node of each kind can signal.
Signals(kind) ==
  CASE kind = "group" -> {"ignored"}
    [] kind = "skip"  -> {"skipped"}
    [] kind = "test"  -> {"pass", "fail"}

\* new Stats()
Stats == [pass |-> 0, fail |-> 0, skip |-> 0, ignore |-> 0, total |-> 0]

\* this.tom.on('pass' | 'fail' | 'skipped' | 'ignored', ...): the counter.
Count(stats, signal) ==
  CASE signal = "pass"    -> [stats EXCEPT !.pass = @ + 1]
    [] signal = "fail"    -> [stats EXCEPT !.fail = @ + 1]
    [] signal = "skipped" -> [stats EXCEPT !.skip = @ + 1]
    [] signal = "ignored" -> [stats EXCEPT !.ignore = @ + 1]

\* set state (state) { this.setState(state) }
Assign(st, target) == setState(validMoves, st, target, <<>>)

\* A failure handler that leaves the state of the runner as it is.
Catch_KeepsState(st) == [state |-> st, thrown |-> FALSE]

\* A failure handler that throws the error again.
Catch_Rethrows(st) == [state |-> Assign(st, "fail").state, thrown |-> TRUE]

\* .catch(err => { this.state = 'fail'; ... }): the state after the handler,
\* and whether the handler has thrown.
Catch(st) ==
  LET r == Assign(st, "fail") IN
  [state |-> r.state, thrown |-> r.error # "none"]

\* A job that does not wait for the run() of its test.
JobFulfilled_IgnoresRun(node) == node.level = "done"

\* Promise.all([promise, this.runTomNode(test)]) fulfils: run() has settled
\* and the level below the test has resolved.
JobFulfilled(node) ==
  /\ node.run \in {"fulfilled", "rejected"}
  /\ node.level = "done"

\* A queue that takes no ceiling from the node.
LevelQueue_Unbounded(n) == Queue(Len(Children(n)), Infinity)

\* new Queue(jobs, tom.maxConcurrency)
LevelQueue(n) == Queue(Len(Children(n)), tom[n].maxConcurrency)

\* The numbers a node of a tree can have.
NodeIds == 1..(MaxNodes + MaxLeaves)

\* The trees of a root with n leaf children.
FlatToms(n) ==
  {t \in [1..(n + 1) -> [parent : {0, Root}, kind : NodeKinds,
                         maxConcurrency : 1..MaxConcurrency]] :
     /\ t[Root].parent = 0
     /\ \A c \in 2..(n + 1) : t[c].parent = Root /\ t[c].maxConcurrency = 1}

\* The trees of a root with n branches, each a group with one test below it:
\* the branches are the nodes 2..(n + 1), and the test of branch b is the node
\* b + n.
BranchToms(n) ==
  {[c \in 1..(2 * n + 1) |->
      IF c = Root
      THEN [parent |-> 0, kind |-> "group", maxConcurrency |-> m]
      ELSE IF c <= n + 1
      THEN [parent |-> Root, kind |-> "group", maxConcurrency |-> 1]
      ELSE [parent |-> c - n, kind |-> "test", maxConcurrency |-> 1]] :
     m \in 1..MaxConcurrency}

\* A node before the runner has reached it.
NotReached == [run |-> "idle", level |-> "none", job |-> "idle",
               queue |-> Queue(0, 1)]

\* The job thunks of the tests cs are called: test.run() is invoked and
\* runTomNode(test) puts the level below the test on a timer.
CallJobs(S, cs) ==
  [c \in DOMAIN S |->
     IF c \in cs
     THEN [S[c] EXCEPT !.run = "running", !.level = "scheduled",
                       !.job = "running"]
     ELSE S[c]]

RECURSIVE LevelDone(_, _)
RECURSIVE JobDone(_, _, _)

\* The job of test c settles: the queue of its parent counts it, starts the
\* next jobs, and process() fulfils once every job has settled.
JobDone(S, c, outcome) ==
  LET p  == tom[c].parent
      q  == JobSettled(S[p].queue)
      cs == {Children(p)[j] : j \in NewlyStarted(S[p].queue, q)}
      S1 == CallJobs([S EXCEPT ![c].job = outcome, ![p].queue = q], cs)
  IN  IF AllSettled(q) THEN LevelDone(S1, p) ELSE S1

\* await queue.process(); resolve(): the promise of runTomNode(n) resolves,
\* and with it the job of n when the run() of n has settled.
LevelDone(S, n) ==
  LET S1 == [S EXCEPT ![n].level = "done"] IN
  IF n # Root /\ S1[n].job = "running" /\ JobFulfilled(S1[n])
  THEN JobDone(S1, n, "fulfilled")
  ELSE S1

\* The events of a runner that are counted.
RunnerEvents ==
  {"start", "end", "test-pass", "test-fail", "test-skip", "test-ignore"}

\* The runner event and the view callback of a signal of the tree.
RunnerEvent(signal) ==
  CASE signal = "pass"    -> "test-pass"
    [] signal = "fail"    -> "test-fail"
    [] signal = "skipped" -> "test-skip"
    [] signal = "ignored" -> "test-ignore"

ViewCallback(signal) ==
  CASE signal = "pass"    -> "testPass"
    [] signal = "fail"    -> "testFail"
    [] signal = "skipped" -> "testSkip"
    [] signal = "ignored" -> "testIgnore"

\* What a runner has emitted, its options and its fields after construction.
\* handler holds the steps of the last handler of a tree event, each with the
\* Stats as they were at that step; log counts the errors written to
\* console.error; later holds where every further start() call is, and reran
\* counts the calls of the root's run() that such calls have made.
Runner(options) ==
  [options |-> options,
   ended   |-> FALSE,
   stats   |-> Stats,
   emitted |-> [e \in RunnerEvents |-> 0],
   handler |-> <<>>,
   log     |-> 0,
   pc      |-> "constructed",
   promise |-> "none",
   later   |-> <<>>,
   reran   |-> 0,
   atStart |-> [emitted |-> FALSE],
   atEnd   |-> [emitted |-> FALSE]]

\* A step of a handler of a tree event.
Step(op, name, stats) == [op |-> op, name |-> name, stats |-> stats]

\* A handler that emits the runner event before it counts.
TomHandler_EmitsFirst(ru, signal) ==
  [ru EXCEPT
     !.stats = Count(@, signal),
     !.emitted[RunnerEvent(signal)] = @ + 1,
     !.handler =
        << Step("emit", RunnerEvent(signal), ru.stats),
           Step("count", signal, Count(ru.stats, signal)) >>
        \o IF ru.options.view # "none"
           THEN << Step("view", ViewCallback(signal), Count(ru.stats, signal)) >>
           ELSE << >>]

\* A handler that emits nothing for a skipped test.
TomHandler_SkipNotEmitted(ru, signal) ==
  [ru EXCEPT
     !.stats = Count(@, signal),
     !.emitted[RunnerEvent(signal)] = IF signal = "skipped" THEN @ ELSE @ + 1,
     !.handler = << Step("count", signal, Count(ru.stats, signal)) >>]

\* this.tom.on(signal, (...args) => { this.stats[...]++;
\* this.emit('test-...', ...args); if (this.view && this.view.test...)
\* this.view.test...(...args) })
TomHandler(ru, signal) ==
  LET counted == Count(ru.stats, signal) IN
  [ru EXCEPT
     !.stats = counted,
     !.emitted[RunnerEvent(signal)] = @ + 1,
     !.handler =
        << Step("count", signal, counted),
           Step("emit", RunnerEvent(signal), counted) >>
        \o IF ru.options.view # "none"
           THEN << Step("view", ViewCallback(signal), counted) >>
           ELSE << >>]

\* this.options.view: no view, or a view with an init hook and the callbacks.
Views == {"none", "init"}

\* A debug option that also counts what it logs as a failed test.
Logged_CountsFailure(ru, caught) ==
  IF ru.options.debug /\ ~caught.thrown
  THEN [ru EXCEPT !.log = @ + 1, !.stats.fail = @ + 1]
  ELSE ru

\* if (this.options.debug) { console.error(...) } of the two failure handlers,
\* reached when this.state = 'fail' has returned.
Logged(ru, caught) ==
  IF ru.options.debug /\ ~caught.thrown THEN [ru EXCEPT !.log = @ + 1] ELSE ru

\* The states gone through, after a step that found the state at `from` and
\* left it at `to`.
Moved(h, from, to) == IF to # from THEN Append(h, to) ELSE h

\* The rest of start() after await this.runTomNode(this.tom).
AfterTraversal(st, ru, S) ==
  IF ru.pc = "traverse" /\ S[Root].level = "done"
  THEN LET r == IF st # "fail" THEN Assign(st, "pass") ELSE [state |-> st, error |-> "none"]
           ended == [ru EXCEPT !.ended = TRUE, !.pc = "done"]
       IN  IF r.error # "none"
           THEN [state  |-> r.state,
                 runner |-> [ended EXCEPT !.promise = "rejected"],
                 nodes  |-> S]
           ELSE [state  |-> r.state,
                 runner |-> [ended EXCEPT
                               !.promise = "fulfilled",
                               !.emitted.end = @ + 1,
                               !.atEnd = [emitted |-> TRUE,
                                          ended   |-> ended.ended,
                                          state   |-> r.state,
                                          stats   |-> ended.stats,
                                          running |-> {n \in DOMAIN S :
                                             S[n].run \notin {"fulfilled", "rejected"}}]],
                 nodes  |-> S]
  ELSE [state |-> st, runner |-> ru, nodes |-> S]

\* A start() that does not await this.run(this.tom) before it traverses.
StartBody_RunNotAwaited(st, ru, S) ==
  LET r == setState(validMoves, st, "in-progress", <<testCount>>)
      counted == [ru EXCEPT !.stats.total = testCount]
  IN  IF r.error # "none"
      THEN [state  |-> r.state,
            runner |-> [counted EXCEPT !.pc = "done", !.promise = "rejected"],
            nodes  |-> S]
      ELSE [state  |-> r.state,
            runner |-> [counted EXCEPT
                          !.pc = "run", !.promise = "pending",
                          !.emitted.start = @ + 1,
                          !.atStart = [emitted |-> TRUE, count |-> testCount,
                                       state |-> r.state]],
            nodes  |-> [S EXCEPT ![Root].run = "running",
                                 ![Root].level = "scheduled"]]

\* start() from this.stats.start = Date.now() to await this.run(this.tom).
StartBody(st, ru, S) ==
  LET r == setState(validMoves, st, "in-progress", <<testCount>>)
      counted == [ru EXCEPT !.stats.total = testCount]
  IN  IF r.error # "none"
      THEN [state  |-> r.state,
            runner |-> [counted EXCEPT !.pc = "done", !.promise = "rejected"],
            nodes  |-> S]
      ELSE [state  |-> r.state,
            runner |-> [counted EXCEPT
                          !.pc = "run", !.promise = "pending",
                          !.emitted.start = @ + 1,
                          !.atStart = [emitted |-> TRUE, count |-> testCount,
                                       state |-> r.state]],
            nodes  |-> [S EXCEPT ![Root].run = "running"]]


\* start () can be called: the runner has been constructed and not started.
CanStart(ru) == ru.pc = "constructed"

\* start (): up to the first await.
StartCalled(st, ru, S) ==
  IF ru.options.view = "init"
  THEN [state  |-> st,
        runner |-> [ru EXCEPT !.pc = "init", !.promise = "pending"],
        nodes  |-> S]
  ELSE StartBody(st, ru, S)

\* start () waits for this.view.init().
AwaitsInit(ru) == ru.pc = "init"

\* The run() of node n can settle with signal.
CanSettle(S, n, signal) ==
  /\ n \in 1..Len(tom)
  /\ S[n].run = "running"
  /\ signal \in Signals(tom[n].kind)

\* The run() of node n settles: the tree signals the outcome, the handler of
\* the runner counts it, a rejection goes to the failure handler, and
\* whatever was waiting for this run() goes on.
NodeSettled(st, ru, S, n, signal) ==
  LET counted == TomHandler(ru, signal)
      caught  == IF signal = "fail" THEN Catch(st)
                 ELSE [state |-> st, thrown |-> FALSE]
      logged  == IF signal = "fail" THEN Logged(counted, caught) ELSE counted
      S1      == [S EXCEPT ![n].run = IF signal = "fail" THEN "rejected"
                                      ELSE "fulfilled"]
  IN  IF n = Root
      THEN IF caught.thrown
           THEN [state  |-> caught.state,
                 runner |-> [logged EXCEPT !.pc = "done",
                                           !.promise = "rejected"],
                 nodes  |-> S1]
           ELSE [state  |-> caught.state,
                 runner |-> [logged EXCEPT !.pc = "traverse"],
                 nodes  |-> [S1 EXCEPT ![Root].level = "scheduled"]]
      ELSE AfterTraversal(caught.state, logged,
             IF S1[n].job = "running" /\ caught.thrown
             THEN JobDone(S1, n, "rejected")
             ELSE IF S1[n].job = "running" /\ JobFulfilled(S1[n])
             THEN JobDone(S1, n, "fulfilled")
             ELSE S1)

\* The timer of runTomNode(n) is set and has not fired.
CanTick(S, n) ==
  /\ n \in 1..Len(tom)
  /\ S[n].level = "scheduled"

\* The timer of runTomNode(n) fires: a queue of the jobs of the children of n
\* is made and processed.
LevelTicked(st, ru, S, n) ==
  LET q0 == LevelQueue(n)
      q  == StartJobs(q0)
      cs == {Children(n)[j] : j \in NewlyStarted(q0, q)}
      S1 == CallJobs([S EXCEPT ![n].queue = q, ![n].level = "processing"], cs)
  IN  AfterTraversal(st, ru, IF AllSettled(q) THEN LevelDone(S1, n) ELSE S1)

\* start () can be called again: the first call has completed.
CanStartAgain(ru) ==
  /\ ru.pc = "done"
  /\ Len(ru.later) < MaxStarts - 1

\* start () is called again after the first call has completed: the init
\* hook of the view, the count, and setState('in-progress', testCount), which
\* throws for a runner that has passed or failed.
StartedAgain(st, ru, S) ==
  LET next == StartBody(st, ru, S) IN
  IF next.runner.promise = "rejected"
  THEN [state  |-> next.state,
        runner |-> [ru EXCEPT !.stats.total = testCount,
                              !.later = Append(@, "rejected")],
        nodes  |-> S]
  ELSE [state  |-> next.state,
        runner |-> [next.runner EXCEPT !.promise = ru.promise,
                                       !.later = Append(@, "pending")],
        nodes  |-> next.nodes]


\* start () can be called while the first call is in progress.
CanStartDuring(ru) ==
  /\ ru.pc \in {"init", "run", "traverse"}
  /\ Len(ru.later) < MaxStarts - 1

\* A further start() call has returned from await this.view.init() while the
\* first call is past its own.
CanResume(ru) ==
  /\ ru.pc \in {"run", "traverse"}
  /\ \E k \in 1..Len(ru.later) : ru.later[k] = "init"

\* A further start() call made while the first is in progress, from
\* this.stats.start = Date.now() to await this.run(this.tom), as call k of
\* later: setState('in-progress', testCount) returns at once when the state
\* is 'in-progress' and throws when it is 'fail'; then 'start' is emitted and
\* the run() of the root is called again. What the call does once that run()
\* has settled is left out.
Restarted(st, ru, S, k) ==
  LET r == setState(validMoves, st, "in-progress", <<testCount>>)
      counted == [ru EXCEPT !.stats.total = testCount]
  IN  IF r.error # "none"
      THEN [state  |-> r.state,
            runner |-> [counted EXCEPT !.later[k] = "rejected"],
            nodes  |-> S]
      ELSE [state  |-> r.state,
            runner |-> [counted EXCEPT !.later[k] = "pending",
                                       !.emitted.start = @ + 1,
                                       !.reran = @ + 1],
            nodes  |-> S]

\* A further start() call made while the first is in progress, up to its
\* first await.
StartedDuring(st, ru, S) ==
  LET called == [ru EXCEPT !.later = Append(@, "init")] IN
  IF ru.options.view = "init"
  THEN [state |-> st, runner |-> called, nodes |-> S]
  ELSE Restarted(st, called, S, Len(called.later))
----------------------------------------------------------------------------
(* TestRunner, the runner of dist/tests.js that is a StateMachine          *)
(* (dist/tests.js:367). It runs every node of the tree at once and has a   *)
(* view that listens to its 'start' and 'end' events. The tree is not      *)
(* under src/: run() of a node calls its test function, if it has one and  *)
(* is not skipped, before it returns, and returns a promise that rejects   *)
(* when the test function throws.                                          *)

\* super([ { from: undefined, to: 'pending' }, ... ])
TestRunnerMoves ==
  << [from |-> {Undefined}, to |-> {"pending"}],
     [from |-> {"pending"}, to |-> {"start"}],
     [from |-> {"start"},   to |-> {"end"}] >>

\* this.state = 'pending' of the constructor.
TestRunnerInitialState ==
  setState(TestRunnerMoves, Undefined, "pending", <<>>).state

\* Array.from(tom): a node, then the nodes below each of its children in turn.
RECURSIVE ArrayFrom(_)
RECURSIVE ArrayFromEach(_)
ArrayFrom(n) == <<n>> \o ArrayFromEach(Children(n))

ArrayFromEach(cs) ==
  IF cs = <<>> THEN <<>> ELSE ArrayFrom(Head(cs)) \o ArrayFromEach(Tail(cs))

\* Something that was called: a hook of the view, the run() of a node, or the
\* test function of a node.
Called(op, node) == [op |-> op, node |-> node]

\* A view whose end hook is not attached.
RECURSIVE ViewHooks_StartOnly(_)
ViewHooks_StartOnly(emitted) ==
  IF emitted = <<>> THEN <<>>
  ELSE (IF Head(emitted).name = "start" THEN << Called("view.start", 0) >>
        ELSE <<>>)
       \o ViewHooks_StartOnly(Tail(emitted))

\* attach (runner): runner.on('start', this._callback.start) and
\* runner.on('end', this._callback.end): the hooks that the events call.
RECURSIVE ViewHooks(_)
ViewHooks(emitted) ==
  IF emitted = <<>> THEN <<>>
  ELSE (CASE Head(emitted).name = "start" -> << Called("view.start", 0) >>
          [] Head(emitted).name = "end"   -> << Called("view.end", 0) >>
          [] OTHER                        -> <<>>)
       \o ViewHooks(Tail(emitted))

\* A map that ends at the first test function that throws.
RECURSIVE RunInParallel_StopsAtThrow(_, _)
RunInParallel_StopsAtThrow(order, throws) ==
  IF order = <<>> THEN <<>>
  ELSE << Called("run", Head(order)) >>
       \o (IF tom[Head(order)].kind = "test"
           THEN << Called("testFn", Head(order)) >> ELSE <<>>)
       \o (IF Head(order) \in throws THEN <<>>
           ELSE RunInParallel_StopsAtThrow(Tail(order), throws))

\* Array.from(tom).map(test => test.run().catch(...)): the run() calls and the
\* test functions they call, in order; the test functions of throws throw.
RECURSIVE RunInParallel(_, _)
RunInParallel(order, throws) ==
  IF order = <<>> THEN <<>>
  ELSE << Called("run", Head(order)) >>
       \o (IF tom[Head(order)].kind = "test"
           THEN << Called("testFn", Head(order)) >> ELSE <<>>)
       \o RunInParallel(Tail(order), throws)

\* The nodes whose run() the calls of log have invoked.
RunNodes(log) == {log[k].node : k \in {j \in 1..Len(log) : log[j].op = "run"}}

\* The fields of a TestRunner after construction.
TestRunner ==
  [pc |-> "constructed", promise |-> "none", log |-> <<>>]

----------------------------------------------------------------------------
(* The variables of a component that a specification does not exercise.    *)

\* No emit call has returned since the last call made by a client.
NoEmit == [done |-> FALSE]

\* The Emitter variables while no emitter is exercised.
IdleEmitter ==
  /\ version = "emitTarget"
  /\ parent = <<>>
  /\ listeners = <<>>
  /\ registry = <<>>
  /\ stack = <<>>
  /\ lastEmit = NoEmit
  /\ invoked = <<>>
  /\ seen = <<>>
  /\ emitLog = [emits |-> 0, removes |-> 0, nested |-> 0, names |-> {}]

\* The StateMachine variables while no state machine is exercised.
IdleStateMachine ==
  /\ validMoves = <<>>
  /\ state = Undefined
  /\ lastSet = NoCall

IdleQueue ==
  /\ queue = Queue(0, 1)
  /\ jobs = <<>>
  /\ processing = "idle"

IdleTest ==
  /\ test = [options |-> [timeout |-> DefaultTimeout],
             testFn  |-> [kind |-> "returns", ok |-> TRUE, value |-> "true", delay |-> 0],
             state   |-> "pending"]
  /\ now = 0
  /\ run = NotRun

IdleCore ==
  /\ tom = <<>>
  /\ nodes = <<>>
  /\ runner = Runner([view |-> "none", debug |-> FALSE])
  /\ history = <<>>

----------------------------------------------------------------------------
(* Emitter: specification                                                  *)

InitEmitter ==
  /\ IdleCore
  /\ IdleTest
  /\ IdleStateMachine
  /\ IdleQueue
  /\ version \in {"emitTarget", "legacy"}
  /\ parent = [e \in Emitters |-> IF e < NumEmitters THEN e + 1 ELSE 0]
  /\ listeners = [e \in Emitters |-> <<>>]
  /\ registry = <<>>
  /\ stack = <<>>
  /\ lastEmit = NoEmit
  /\ invoked = <<>>
  /\ seen = <<>>
  /\ emitLog = [emits |-> 0, removes |-> 0, nested |-> 0, names |-> {}]

\* on (eventName, handler, options) and once (eventName, handler); with the
\* handler as only argument the record is a wildcard and has no options.
On(e, eventName, once) ==
  /\ stack = <<>>
  /\ emitLog.emits = 0
  /\ Len(registry) < MaxListeners
  /\ eventName = Wildcard => ~once
  /\ LET id == Len(registry) + 1 IN
     /\ registry' = Append(registry, [em |-> e, eventName |-> eventName, once |-> once])
     /\ listeners' = [listeners EXCEPT ![e] = Append(@, Listener(id, eventName, once))]
     /\ invoked' = Append(invoked, 0)
     /\ seen' = Append(seen, 0)
  /\ lastEmit' = NoEmit
  /\ UNCHANGED <<version, parent, stack, emitLog>>
  /\ UNCHANGED <<smVars, quVars, teVars, coVars>>

\* removeEventListener called between emissions.
RemoveEventListener(id) ==
  /\ stack = <<>>
  /\ id \in 1..Len(registry)
  /\ indexOf(listeners[registry[id].em], id) > -1
  /\ emitLog.removes < MaxRemoves
  /\ listeners' = [listeners EXCEPT ![registry[id].em] =
                     removeEventListener(@, registry[id].eventName, id)]
  /\ emitLog' = [emitLog EXCEPT !.removes = @ + 1]
  /\ lastEmit' = NoEmit
  /\ UNCHANGED <<version, parent, registry, stack, invoked, seen>>
  /\ UNCHANGED <<smVars, quVars, teVars, coVars>>

\* emit (eventName, ...args) called by a client: the call begins.
Emit(e, eventName, args) ==
  /\ stack = <<>>
  /\ emitLog.emits < MaxEmits
  /\ stack' = <<Frame(e, eventName, args, 0)>>
  /\ emitLog' = [emitLog EXCEPT !.emits = @ + 1, !.names = @ \cup {eventName}]
  /\ lastEmit' = NoEmit
  /\ UNCHANGED <<version, parent, listeners, registry, invoked, seen>>
  /\ UNCHANGED <<smVars, quVars, teVars, coVars>>

\* The loop of the innermost call reaches its next matching listener and calls
\* the handler, which does what `does` says before it returns.
Invoke(does) ==
  /\ stack # <<>>
  /\ NextMatch(Top) # 0
  /\ does.kind = "emit" => emitLog.nested < MaxNested /\ does.name = Top.name
  /\ does.kind = "remove" =>
       /\ emitLog.removes < MaxRemoves
       /\ does.id \in 1..Len(registry)
       /\ registry[does.id].em = Top.em
       /\ indexOf(listeners[Top.em], does.id) > -1
  /\ LET f    == Top
         k    == NextMatch(f)
         ls   == listeners[f.em]
         l    == ls[k]
         g    == [f EXCEPT
                    !.i        = k + 1,
                    !.toRemove = @ \o PassedOnce(ls, f.i, k - 1)
                                   \o (IF l.once THEN <<l.id>> ELSE <<>>),
                    !.calls    = Append(@, [id   |-> l.id,
                                            args |-> HandlerArgs(l, f.name, f.args)]),
                    !.removed  = @ + (IF does.kind = "remove" THEN 1 ELSE 0),
                    !.nested   = @ + (IF does.kind = "emit" THEN 1 ELSE 0)]
     IN
     /\ invoked' = [invoked EXCEPT ![l.id] = @ + 1]
     /\ listeners' =
          IF does.kind = "remove"
          THEN [listeners EXCEPT ![f.em] =
                  removeEventListener(@, registry[does.id].eventName, does.id)]
          ELSE listeners
     /\ stack' =
          IF does.kind = "emit"
          THEN Append([stack EXCEPT ![Len(stack)] = g],
                      Frame(f.em, does.name, f.args, 0))
          ELSE [stack EXCEPT ![Len(stack)] = g]
     /\ emitLog' =
          CASE does.kind = "return" -> emitLog
            [] does.kind = "remove" -> [emitLog EXCEPT !.removes = @ + 1]
            [] does.kind = "emit"   -> [emitLog EXCEPT !.nested = @ + 1,
                                                       !.names = @ \cup {does.name}]
  /\ UNCHANGED <<version, parent, registry, lastEmit, seen>>
  /\ UNCHANGED <<smVars, quVars, teVars, coVars>>

\* What a handler may do before it returns.
HandlerDoes ==
  [kind : {"return"}, id : {0}, name : {"E"}]
    \cup [kind : {"remove"}, id : 1..MaxListeners, name : {"E"}]
    \cup [kind : {"emit"}, id : {0}, name : EventNames]

\* A handler that emits again emits the event it is handling.

\* The loop of the innermost call is over: the once listeners it collected are
\* removed, and the event bubbles up to the parent, if there is one.
Return ==
  /\ stack # <<>>
  /\ NextMatch(Top) = 0
  /\ LET f    == Top
         ls   == listeners[f.em]
         rm   == f.toRemove \o PassedOnce(ls, f.i, LoopLimit(f))
         left == IF Len(ls) > 0 THEN RemoveAll(ls, rm) ELSE ls
         up   == IF version = "legacy"
                 THEN 0
                 ELSE IF f.target # 0 THEN f.target ELSE f.em
     IN
     /\ listeners' = [listeners EXCEPT ![f.em] = left]
     /\ lastEmit' = [done |-> TRUE, em |-> f.em, name |-> f.name, args |-> f.args,
                     snap |-> f.snap, calls |-> f.calls, toRemove |-> rm,
                     before |-> ls, after |-> left,
                     removed |-> f.removed, nested |-> f.nested,
                     path |-> f.path]
     /\ seen' = [id \in 1..Len(seen) |->
                   IF registry[id].em = f.em /\ registry[id].eventName = f.name
                   THEN Min(seen[id] + 1, 2) ELSE seen[id]]
     /\ stack' = Pop(stack) \o Bubble(f, up)
  /\ UNCHANGED <<version, parent, registry, invoked, emitLog>>
  /\ UNCHANGED <<smVars, quVars, teVars, coVars>>

NextEmitter ==
  \/ \E e \in Emitters, n \in EventNames \cup {Wildcard}, o \in BOOLEAN : On(e, n, o)
  \/ \E id \in 1..MaxListeners : RemoveEventListener(id)
  \/ \E e \in Emitters, n \in EventNames, a \in EmitArgs : Emit(e, n, a)
  \/ \E d \in HandlerDoes : Invoke(d)
  \/ Return

SpecEmitter == InitEmitter /\ [][NextEmitter]_vars

\* The emitters of a chain: each one but the last has the next one as parent.
Chain == 1..(MaxDepth + 1)

\* A chain of emitters without listeners.
InitEmitterChain ==
  /\ IdleCore
  /\ IdleTest
  /\ IdleStateMachine
  /\ IdleQueue
  /\ version \in {"emitTarget", "legacy"}
  /\ parent = [e \in Chain |-> IF e < MaxDepth + 1 THEN e + 1 ELSE 0]
  /\ listeners = [e \in Chain |-> <<>>]
  /\ registry = <<>>
  /\ stack = <<>>
  /\ lastEmit = NoEmit
  /\ invoked = <<>>
  /\ seen = <<>>
  /\ emitLog = [emits |-> 0, removes |-> 0, nested |-> 0, names |-> {}]

\* on() or once() of an emitter of the chain. The listeners of an emitter are
\* registered before those of the emitters above it: the order of on() calls
\* made on different emitters makes no difference to any of them.
OnChain(e, eventName, once) ==
  /\ registry # <<>> => e >= registry[Len(registry)].em
  /\ On(e, eventName, once)

\* Listeners are registered along the chain, then a client emits E from
\* emitters of the chain; the handlers return without touching an emitter.
NextEmitterChain ==
  \/ \E e \in Chain, n \in EventNames \cup {Wildcard}, o \in BOOLEAN :
       OnChain(e, n, o)
  \/ \E e \in Chain, a \in EmitArgs : Emit(e, "E", a)
  \/ Invoke([kind |-> "return", id |-> 0, name |-> "E"])
  \/ Return

SpecEmitterChain == InitEmitterChain /\ [][NextEmitterChain]_vars

----------------------------------------------------------------------------
(* StateMachine: specification                                             *)


InitStateMachine ==
  /\ IdleCore
  /\ IdleTest
  /\ IdleEmitter
  /\ IdleQueue
  /\ validMoves \in UNION {[1..n -> Moves] : n \in 0..MaxMoves}
  /\ state = Undefined
  /\ lastSet = NoCall

\* One call of setState(target, ...args) by a client of the state machine.
SetState(target, args) ==
  LET r == setState(validMoves, state, target, args) IN
  /\ state' = r.state
  /\ lastSet' = [called  |-> TRUE,
                 target  |-> target,
                 args    |-> args,
                 prev    |-> state,
                 commits |-> r.commits,
                 emitted |-> r.emitted,
                 error   |-> r.error]
  /\ UNCHANGED validMoves
  /\ UNCHANGED <<emVars, quVars, teVars, coVars>>

NextStateMachine ==
  \E target \in StateNames \cup {Undefined}, args \in SMArgs :
    SetState(target, args)

SpecStateMachine == InitStateMachine /\ [][NextStateMachine]_vars

----------------------------------------------------------------------------
(* Queue: specification                                                    *)

InitQueue ==
  /\ IdleCore
  /\ IdleTest
  /\ IdleStateMachine
  /\ IdleEmitter
  /\ \E m \in 0..MaxJobs, n \in (1..MaxCeiling) \cup {Infinity} :
       /\ queue = Queue(m, n)
       /\ jobs = [j \in 1..m |-> "pending"]
  /\ processing = "idle"

\* process(): the first jobs are started; the future it returns fulfils at
\* once when the list is empty.
Process ==
  /\ processing = "idle"
  /\ LET q == StartJobs(queue) IN
     /\ queue' = q
     /\ jobs' = [j \in 1..Len(jobs) |->
                   IF j \in NewlyStarted(queue, q) THEN "running" ELSE jobs[j]]
     /\ processing' = Processing(q, jobs)
  /\ UNCHANGED <<smVars, emVars, teVars, coVars>>

\* The future of a running job fulfils or fails.
JobSettles(j, outcome) ==
  /\ processing = "running"
  /\ j \in 1..Len(jobs)
  /\ jobs[j] = "running"
  /\ LET q == JobSettled(queue) IN
     /\ queue' = q
     /\ jobs' = [i \in 1..Len(jobs) |->
                   IF i = j THEN outcome
                   ELSE IF i \in NewlyStarted(queue, q) THEN "running"
                   ELSE jobs[i]]
     /\ processing' = Processing(q, [jobs EXCEPT ![j] = outcome])
  /\ UNCHANGED <<smVars, emVars, teVars, coVars>>

NextQueue ==
  \/ Process
  \/ \E j \in 1..MaxJobs, outcome \in {"fulfilled", "failed"} : JobSettles(j, outcome)

SpecQueue == InitQueue /\ [][NextQueue]_vars

\* Every job that has been started settles in the end.
SpecQueueFair ==
  /\ SpecQueue
  /\ \A j \in 1..MaxJobs :
       WF_vars(\E outcome \in {"fulfilled", "failed"} : JobSettles(j, outcome))

----------------------------------------------------------------------------
(* Test: specification                                                     *)

\* new Test(name, testFn, options)
InitTest ==
  /\ IdleCore
  /\ IdleStateMachine
  /\ IdleEmitter
  /\ IdleQueue
  /\ test \in [options : TestOptions, testFn : TestFns, state : {"pending"}]
  /\ now = 0
  /\ run = NotRun

\* run (): the test function is called inside the executor of testFnResult,
\* raceTimeout starts its timer, and Promise.race reacts to what has settled
\* by the time the caller's turn ends.
Run ==
  /\ ~run.called
  /\ LET fn == test.testFn
         testFnResult == Executor(fn).testFnResult
     IN
     /\ test' = [test EXCEPT !.state = Executor(fn).state]
     /\ run' = [called       |-> TRUE,
                at           |-> now,
                testFnResult |-> testFnResult,
                raceTimeout  |-> Pending,
                timer        |-> "armed",
                promise      |-> Settle(Pending, testFnResult)]
  /\ now' = now
  /\ UNCHANGED <<smVars, emVars, quVars, coVars>>

WorkDue ==
  /\ run.called
  /\ test.testFn.kind = "promise"
  /\ test.testFn.delay # Never
  /\ run.testFnResult.status = "pending"
  /\ run.at + test.testFn.delay <= now

TimerDue ==
  /\ run.called
  /\ run.timer = "armed"
  /\ run.at + test.options.timeout <= now

\* The promise the test function returned settles:
\* result.then(resolve).catch(reject) settles testFnResult with it, and the
\* race with testFnResult.
WorkSettles ==
  /\ WorkDue
  /\ LET testFnResult == Settle(run.testFnResult, Outcome(test.testFn)) IN
     run' = [run EXCEPT !.testFnResult = testFnResult,
                        !.promise = Settle(@, testFnResult)]
  /\ UNCHANGED <<test, now>>
  /\ UNCHANGED <<smVars, emVars, quVars, coVars>>

\* The timer of raceTimeout fires: its promise rejects, and the race with it.
TimerFires ==
  /\ TimerDue
  /\ LET raceTimeout == Settle(run.raceTimeout,
                               Rejected(TimeoutError(test.options.timeout))) IN
     run' = [run EXCEPT !.raceTimeout = raceTimeout,
                        !.timer = "fired",
                        !.promise = Settle(@, raceTimeout)]
  /\ UNCHANGED <<test, now>>
  /\ UNCHANGED <<smVars, emVars, quVars, coVars>>

\* Time passes once everything that is due has happened.
Tick ==
  /\ now < MaxTime
  /\ ~WorkDue
  /\ ~TimerDue
  /\ now' = now + 1
  /\ UNCHANGED <<test, run>>
  /\ UNCHANGED <<smVars, emVars, quVars, coVars>>

NextTest ==
  \/ Run
  \/ WorkSettles
  \/ TimerFires
  \/ Tick

SpecTest == InitTest /\ [][NextTest]_vars

----------------------------------------------------------------------------
(* TestRunnerCore: specification                                           *)

\* new TestRunnerCore(tom, options), for a tree that TOM.validate accepts.
InitCore ==
  /\ IdleEmitter
  /\ IdleQueue
  /\ IdleTest
  /\ validMoves = CoreMoves
  /\ state = CoreInitialState
  /\ lastSet = NoCall
  /\ tom \in UNION {Toms(n) : n \in 1..MaxNodes}
  /\ nodes = [n \in 1..Len(tom) |-> NotReached]
  /\ runner \in {Runner([view |-> v, debug |-> FALSE]) : v \in Views}
  /\ history = <<CoreInitialState>>

\* start (): up to the first await.
Start ==
  /\ CanStart(runner)
  /\ LET next == StartCalled(state, runner, nodes) IN
     /\ state' = next.state
     /\ runner' = next.runner
     /\ nodes' = next.nodes
     /\ history' = Moved(history, state, next.state)
  /\ UNCHANGED <<validMoves, lastSet, tom>>
  /\ UNCHANGED <<emVars, quVars, teVars>>

\* await this.view.init() returns.
ViewInit ==
  /\ AwaitsInit(runner)
  /\ LET next == StartBody(state, runner, nodes) IN
     /\ state' = next.state
     /\ runner' = next.runner
     /\ nodes' = next.nodes
     /\ history' = Moved(history, state, next.state)
  /\ UNCHANGED <<validMoves, lastSet, tom>>
  /\ UNCHANGED <<emVars, quVars, teVars>>

\* The run() of node n settles with signal.
NodeSettles(n, signal) ==
  /\ CanSettle(nodes, n, signal)
  /\ LET next == NodeSettled(state, runner, nodes, n, signal) IN
     /\ state' = next.state
     /\ runner' = next.runner
     /\ nodes' = next.nodes
     /\ history' = Moved(history, state, next.state)
  /\ UNCHANGED <<validMoves, lastSet, tom>>
  /\ UNCHANGED <<emVars, quVars, teVars>>

\* The timer of runTomNode(n) fires.
LevelTick(n) ==
  /\ CanTick(nodes, n)
  /\ LET next == LevelTicked(state, runner, nodes, n) IN
     /\ state' = next.state
     /\ runner' = next.runner
     /\ nodes' = next.nodes
     /\ history' = Moved(history, state, next.state)
  /\ UNCHANGED <<validMoves, lastSet, tom>>
  /\ UNCHANGED <<emVars, quVars, teVars>>

\* start () is called again after the first call has completed.
StartAgain ==
  /\ CanStartAgain(runner)
  /\ LET next == StartedAgain(state, runner, nodes) IN
     /\ state' = next.state
     /\ runner' = next.runner
     /\ nodes' = next.nodes
     /\ history' = Moved(history, state, next.state)
  /\ UNCHANGED <<validMoves, lastSet, tom>>
  /\ UNCHANGED <<emVars, quVars, teVars>>

NextCore ==
  \/ Start
  \/ ViewInit
  \/ StartAgain
  \/ \E n \in NodeIds, signal \in {"pass", "fail", "skipped", "ignored"} :
       NodeSettles(n, signal)
  \/ \E n \in NodeIds : LevelTick(n)

SpecCore == InitCore /\ [][NextCore]_vars

\* new TestRunnerCore(tom, options), also for the wider trees of a root with
\* up to MaxLeaves leaf children.
InitCoreWide ==
  /\ IdleEmitter
  /\ IdleQueue
  /\ IdleTest
  /\ validMoves = CoreMoves
  /\ state = CoreInitialState
  /\ lastSet = NoCall
  /\ tom \in UNION ({Toms(n) : n \in 1..MaxNodes}
                      \cup {FlatToms(n) : n \in 1..MaxLeaves})
  /\ nodes = [n \in 1..Len(tom) |-> NotReached]
  /\ runner \in {Runner([view |-> v, debug |-> FALSE]) : v \in Views}
  /\ history = <<CoreInitialState>>

SpecCoreWide == InitCoreWide /\ [][NextCore]_vars

\* new TestRunnerCore(tom, options), also for the trees of a root with up to
\* MaxBranches branches.
InitCoreBranches ==
  /\ IdleEmitter
  /\ IdleQueue
  /\ IdleTest
  /\ validMoves = CoreMoves
  /\ state = CoreInitialState
  /\ lastSet = NoCall
  /\ tom \in UNION ({Toms(n) : n \in 1..MaxNodes}
                      \cup {BranchToms(n) : n \in 1..MaxBranches})
  /\ nodes = [n \in 1..Len(tom) |-> NotReached]
  /\ runner \in {Runner([view |-> v, debug |-> FALSE]) : v \in Views}
  /\ history = <<CoreInitialState>>

SpecCoreBranches == InitCoreBranches /\ [][NextCore]_vars

\* new TestRunnerCore(tom, options), with options.debug set or not.
InitCoreDebug ==
  /\ IdleEmitter
  /\ IdleQueue
  /\ IdleTest
  /\ validMoves = CoreMoves
  /\ state = CoreInitialState
  /\ lastSet = NoCall
  /\ tom \in UNION {Toms(n) : n \in 1..MaxNodes}
  /\ nodes = [n \in 1..Len(tom) |-> NotReached]
  /\ runner \in {Runner([view |-> v, debug |-> d]) : v \in Views, d \in BOOLEAN}
  /\ history = <<CoreInitialState>>

SpecCoreDebug == InitCoreDebug /\ [][NextCore]_vars

\* start () is called again while the first call is in progress.
StartDuring ==
  /\ CanStartDuring(runner)
  /\ LET next == StartedDuring(state, runner, nodes) IN
     /\ state' = next.state
     /\ runner' = next.runner
     /\ nodes' = next.nodes
     /\ history' = Moved(history, state, next.state)
  /\ UNCHANGED <<validMoves, lastSet, tom>>
  /\ UNCHANGED <<emVars, quVars, teVars>>

\* await this.view.init() of a further start() call returns.
ViewInitAgain ==
  /\ CanResume(runner)
  /\ LET k    == CHOOSE j \in 1..Len(runner.later) : runner.later[j] = "init"
         next == Restarted(state, runner, nodes, k)
     IN
     /\ state' = next.state
     /\ runner' = next.runner
     /\ nodes' = next.nodes
     /\ history' = Moved(history, state, next.state)
  /\ UNCHANGED <<validMoves, lastSet, tom>>
  /\ UNCHANGED <<emVars, quVars, teVars>>

\* A runner whose start() is called again at any time.
NextCoreRestart ==
  \/ Start
  \/ ViewInit
  \/ StartAgain
  \/ StartDuring
  \/ ViewInitAgain
  \/ \E n \in NodeIds, signal \in {"pass", "fail", "skipped", "ignored"} :
       NodeSettles(n, signal)
  \/ \E n \in NodeIds : LevelTick(n)

SpecCoreRestart == InitCore /\ [][NextCoreRestart]_vars

----------------------------------------------------------------------------
(* TestRunner (dist/tests.js): specification                               *)

\* new TestRunner({ tom, view })
InitTestRunner ==
  /\ IdleEmitter
  /\ IdleQueue
  /\ IdleTest
  /\ validMoves = TestRunnerMoves
  /\ state = TestRunnerInitialState
  /\ lastSet = NoCall
  /\ tom \in UNION {{t \in Toms(n) : \A c \in 1..n : t[c].maxConcurrency = 1} :
                      n \in 1..MaxNodes}
  /\ nodes = [n \in 1..Len(tom) |-> [run |-> "idle", handled |-> FALSE]]
  /\ runner = TestRunner
  /\ history = <<TestRunnerInitialState>>

\* start (): setState('start', count) and runInParallel(this.tom) up to the
\* return. The test functions of the nodes of throws throw.
RunnerStart(throws) ==
  /\ runner.pc = "constructed"
  /\ throws \subseteq {n \in 1..Len(tom) : tom[n].kind = "test"}
  /\ LET order == ArrayFrom(Root)
         r     == setState(validMoves, state, "start", <<Len(order)>>)
         ran   == RunInParallel(order, throws)
     IN
     /\ state' = r.state
     /\ history' = Moved(history, state, r.state)
     /\ IF r.error # "none"
        THEN /\ runner' = [runner EXCEPT !.pc = "done", !.promise = "thrown"]
             /\ nodes' = nodes
        ELSE /\ runner' = [runner EXCEPT
                             !.pc = "running", !.promise = "pending",
                             !.log = @ \o ViewHooks(r.emitted) \o ran]
             /\ nodes' = [n \in 1..Len(tom) |->
                            IF n \in RunNodes(ran)
                            THEN [run     |-> IF n \in throws THEN "rejected"
                                              ELSE "running",
                                  handled |-> FALSE]
                            ELSE nodes[n]]
  /\ UNCHANGED <<validMoves, lastSet, tom>>
  /\ UNCHANGED <<emVars, quVars, teVars>>

\* The promise of the run() of node n settles; only a test can fail.
RunSettles(n, outcome) ==
  /\ n \in 1..Len(tom)
  /\ nodes[n].run = "running"
  /\ outcome = "rejected" => tom[n].kind = "test"
  /\ nodes' = [nodes EXCEPT ![n].run = outcome]
  /\ UNCHANGED <<validMoves, state, lastSet, tom, runner, history>>
  /\ UNCHANGED <<emVars, quVars, teVars>>

\* .catch(err => { }) of node n: the promise that Promise.all waits for
\* fulfils, whether run() fulfilled or rejected.
RunHandled(n) ==
  /\ n \in 1..Len(tom)
  /\ nodes[n].run \in {"fulfilled", "rejected"}
  /\ ~nodes[n].handled
  /\ nodes' = [nodes EXCEPT ![n].handled = TRUE]
  /\ UNCHANGED <<validMoves, state, lastSet, tom, runner, history>>
  /\ UNCHANGED <<emVars, quVars, teVars>>

\* .then(results => { this.state = 'end'; return results }), once Promise.all
\* has fulfilled.
RunnerEnd ==
  /\ runner.pc = "running"
  /\ \A n \in RunNodes(runner.log) : nodes[n].handled
  /\ LET r == Assign(state, "end") IN
     /\ state' = r.state
     /\ history' = Moved(history, state, r.state)
     /\ runner' = [runner EXCEPT
                     !.pc = "done",
                     !.promise = IF r.error # "none" THEN "rejected"
                                 ELSE "fulfilled",
                     !.log = @ \o ViewHooks(r.emitted)]
  /\ UNCHANGED <<validMoves, lastSet, tom, nodes>>
  /\ UNCHANGED <<emVars, quVars, teVars>>

NextTestRunner ==
  \/ \E throws \in SUBSET NodeIds : RunnerStart(throws)
  \/ \E n \in NodeIds, outcome \in {"fulfilled", "rejected"} : RunSettles(n, outcome)
  \/ \E n \in NodeIds : RunHandled(n)
  \/ RunnerEnd

SpecTestRunner == InitTestRunner /\ [][NextTestRunner]_vars

----------------------------------------------------------------------------
(* TestRunner, the runner of part_001:244 that is an Emitter. Its tests    *)
(* are a list made by test(), skip() and only(); start() runs them all at  *)
(* once or, with options.sequential, one after the other. this.state is    *)
(* 0, 1 or 2. The listeners of its events, those of the view included,     *)
(* return; the events it has emitted are kept in runner.emitted.           *)

\* The lists of tests that test(), skip() and only() register before start()
\* is called: test.skip and test.only of every test.
Registered ==
  UNION {[1..n -> [skip : BOOLEAN, only : BOOLEAN]] : n \in 0..MaxTests}

\* this.emit(eventName, ...)
Emits(ru, eventName) == [ru EXCEPT !.emitted = Append(@, eventName)]

\* The number of times eventName has been emitted.
Times(ru, eventName) ==
  Cardinality({k \in 1..Len(ru.emitted) : ru.emitted[k] = eventName})

\* emitPass (test, result)
emitPass(ru) == Emits(Emits(ru, "test-pass"), "test-end")

\* emitFail (test, err)
emitFail(ru) == Emits(Emits(ru, "test-fail"), "test-end")

\* if (this._only.length) { for (const test of this.tests) { if
\* (this._only.indexOf(test) === -1) test.skip = true } }
Only(tests) ==
  IF \E n \in 1..Len(tests) : tests[n].only
  THEN [n \in 1..Len(tests) |-> [tests[n] EXCEPT !.skip = @ \/ ~tests[n].only]]
  ELSE tests

\* const run = () => { const test = tests.shift(); ... } of the sequential
\* mode, up to the test.run() that it waits for, resolve() or the error it
\* throws: tests.shift() of an empty list is undefined and test.skip throws,
\* which rejects the promise of start().
RECURSIVE SequentialRun(_, _, _)
SequentialRun(tests, ru, S) ==
  IF ru.tests = <<>>
  THEN [runner |-> [ru EXCEPT !.promise = "rejected"], nodes |-> S]
  ELSE LET n     == Head(ru.tests)
           taken == [ru EXCEPT !.tests = Tail(@)]
       IN  IF tests[n].skip
           THEN IF taken.tests # <<>>
                THEN SequentialRun(tests, Emits(taken, "test-skip"), S)
                ELSE [runner |-> [Emits(taken, "test-skip")
                                    EXCEPT !.promise = "fulfilled"],
                      nodes  |-> S]
           ELSE [runner |-> taken,
                 nodes  |-> [S EXCEPT ![n].run = "running"]]

\* tests.map(test => { if (test.skip) { this.emit('test-skip', test) } else {
\* this.emit('test-start', test); return test.run()... } }) from test n on.
RECURSIVE ParallelRun(_, _, _, _)
ParallelRun(tests, ru, S, n) ==
  IF n > Len(tests)
  THEN [runner |-> ru, nodes |-> S]
  ELSE IF tests[n].skip
       THEN ParallelRun(tests, Emits(ru, "test-skip"), S, n + 1)
       ELSE ParallelRun(tests, Emits(ru, "test-start"),
                        [S EXCEPT ![n].run = "running"], n + 1)

\* A runner that has been constructed: this.state = 0, this.tests.
EmitterTestRunner(options, tests) ==
  [options |-> options,
   tests   |-> [n \in 1..Len(tests) |-> n],
   emitted |-> <<>>,
   promise |-> "none",
   later   |-> <<>>]

InitEmitterTestRunner ==
  /\ IdleEmitter
  /\ IdleQueue
  /\ IdleTest
  /\ validMoves = <<>>
  /\ lastSet = NoCall
  /\ state = 0
  /\ tom \in Registered
  /\ nodes = [n \in 1..Len(tom) |-> [run |-> "idle"]]
  /\ \E sequential \in BOOLEAN :
       runner = EmitterTestRunner([sequential |-> sequential], tom)
  /\ history = <<0>>

\* start (): returns a resolved promise when the state is not 0; sets state
\* 1, skips the tests that are not only tests, emits 'start' and runs the
\* tests up to the return.
StartTests ==
  /\ Len(runner.later) < MaxStarts - 1
  /\ IF state # 0
     THEN /\ runner' = [runner EXCEPT !.later = Append(@, "fulfilled")]
          /\ UNCHANGED <<state, tom, nodes, history>>
     ELSE LET tests   == Only(tom)
              started == [Emits(runner, "start") EXCEPT !.promise = "pending"]
          IN  /\ tom' = tests
              /\ state' = 1
              /\ LET next == IF runner.options.sequential
                             THEN SequentialRun(tests, started, nodes)
                             ELSE ParallelRun(tests, started, nodes, 1)
                 IN  /\ runner' = next.runner
                     /\ nodes' = next.nodes
              /\ history' = Moved(history, state, state')
  /\ UNCHANGED <<validMoves, lastSet>>
  /\ UNCHANGED <<emVars, quVars, teVars>>

\* The promise of test.run() of test n settles and its .then or .catch
\* handler runs: emitPass or emitFail and, in the sequential mode, run() for
\* the next test or resolve().
TestSettles(n, outcome) ==
  /\ n \in 1..Len(tom)
  /\ nodes[n].run = "running"
  /\ LET S       == [nodes EXCEPT ![n].run = outcome]
         handled == IF outcome = "fulfilled" THEN emitPass(runner)
                    ELSE emitFail(runner)
     IN  IF runner.options.sequential
         THEN IF handled.tests # <<>>
              THEN LET next == SequentialRun(tom, handled, S) IN
                   /\ runner' = next.runner
                   /\ nodes' = next.nodes
              ELSE /\ runner' = [handled EXCEPT !.promise = "fulfilled"]
                   /\ nodes' = S
         ELSE /\ runner' = handled
              /\ nodes' = S
  /\ UNCHANGED <<validMoves, state, lastSet, tom, history>>
  /\ UNCHANGED <<emVars, quVars, teVars>>

\* .then(results => { this.state = 2; this.emit('end'); return results }) of
\* the parallel mode, once Promise.all has fulfilled.
TestsEnd ==
  /\ ~runner.options.sequential
  /\ runner.promise = "pending"
  /\ \A n \in 1..Len(tom) : nodes[n].run \in {"idle", "fulfilled", "rejected"}
  /\ state' = 2
  /\ history' = Moved(history, state, 2)
  /\ runner' = [Emits(runner, "end") EXCEPT !.promise = "fulfilled"]
  /\ UNCHANGED <<validMoves, lastSet, tom, nodes>>
  /\ UNCHANGED <<emVars, quVars, teVars>>

NextEmitterTestRunner ==
  \/ StartTests
  \/ \E n \in 1..MaxTests, outcome \in {"fulfilled", "rejected"} :
       TestSettles(n, outcome)
  \/ TestsEnd

SpecEmitterTestRunner == InitEmitterTestRunner /\ [][NextEmitterTestRunner]_vars

----------------------------------------------------------------------------
(* Emitter: properties                                                     *)

\* The listeners of ls that an emission of eventName is to invoke, in the order
\* of the list, each with the arguments it is to receive.
ExpectedCalls(ls, eventName, args) ==
  LET hit(l) == l.eventName = eventName \/ l.eventName = "__ALL__"
      sel == SelectSeq(ls, hit)
  IN  [k \in 1..Len(sel) |->
         [id   |-> sel[k].id,
          args |-> IF sel[k].eventName = "__ALL__" THEN <<eventName>> \o args
                   ELSE args]]

Present(id) == \E k \in 1..Len(listeners[registry[id].em]) :
                  listeners[registry[id].em][k].id = id

InProgressAt(e) == \E k \in 1..Len(stack) : stack[k].em = e

\* All that has been done to the emitters so far is on() and emit(eventName)
\* calls made one after the other by a client.
OnlyEmitsOf(eventName) ==
  /\ emitLog.removes = 0
  /\ emitLog.nested = 0
  /\ emitLog.names \subseteq {eventName}

\* C7: over a sequence of emit(E) calls, a listener registered with once for E
\* is invoked exactly once: it runs at the first emit(E) that reaches its
\* emitter, stays registered until that emit has run all its listeners, is
\* removed then, and is not invoked by any later emit.
C7_OnceInvokedOnce ==
  \A id \in 1..Len(registry) :
    (registry[id].once /\ OnlyEmitsOf(registry[id].eventName)) =>
      /\ invoked[id] <= 1
      /\ seen[id] >= 1 => (invoked[id] = 1 /\ ~Present(id))
      /\ seen[id] = 0 => Present(id)
      /\ (seen[id] = 0 /\ ~InProgressAt(registry[id].em)) => invoked[id] = 0

\* Two emissions of E have completed at the emitter of a once listener for E.
C7_Witness ==
  \E id \in 1..Len(registry) :
    /\ registry[id].once
    /\ OnlyEmitsOf(registry[id].eventName)
    /\ seen[id] = 2
    /\ invoked[id] = 1
    /\ stack = <<>>

\* C8: when handlers call removeEventListener while an emit runs, the emit
\* still invokes every matching listener that was registered when it began,
\* each exactly once, none skipped.
C8_RemovalKeepsListenerSet ==
  (/\ lastEmit.done
   /\ lastEmit.removed > 0
   /\ lastEmit.nested = 0)
  => lastEmit.calls = ExpectedCalls(lastEmit.snap, lastEmit.name, lastEmit.args)

\* C9: an emit whose handlers leave the emitter alone invokes every listener
\* registered for its event name or as a wildcard, in registration order, each
\* exactly once, and no listener of another name; a wildcard listener receives
\* the event name followed by the arguments, the others the arguments.
C9_EmitInvokesMatchingInOrder ==
  (/\ lastEmit.done
   /\ lastEmit.removed = 0
   /\ lastEmit.nested = 0)
  => /\ lastEmit.calls = ExpectedCalls(lastEmit.snap, lastEmit.name, lastEmit.args)
     /\ \A j, k \in 1..Len(lastEmit.calls) :
          j < k => lastEmit.calls[j].id < lastEmit.calls[k].id

\* An emit has invoked a wildcard listener and a listener of its own name and
\* has passed over a listener of another name.
C9_Witness ==
  /\ lastEmit.done
  /\ lastEmit.removed = 0
  /\ lastEmit.nested = 0
  /\ Len(lastEmit.calls) = 2
  /\ Len(lastEmit.snap) = 3
  /\ \E k \in 1..3 : lastEmit.snap[k].eventName = "__ALL__"
  /\ \E k \in 1..3 : lastEmit.snap[k].eventName = lastEmit.name
  /\ \E k \in 1..3 : lastEmit.snap[k].eventName \notin {"__ALL__", lastEmit.name}

----------------------------------------------------------------------------
(* Queue: properties                                                       *)

InFlight == {j \in 1..Len(jobs) : jobs[j] = "running"}

\* C1: for a Queue with ceiling N and M job thunks, the number of jobs that
\* have been started and have not yet settled never exceeds min(N, M).
C1_InFlightBounded ==
  /\ Cardinality(InFlight) <= queue.max
  /\ Cardinality(InFlight) <= Len(jobs)
  /\ queue.inflight = Cardinality(InFlight)

\* The ceiling is reached while jobs are still pending, and a job has already
\* settled: the queue has refilled a slot.
C1_Witness ==
  /\ processing = "running"
  /\ Cardinality(InFlight) = queue.max
  /\ queue.max >= 2
  /\ queue.pending # <<>>
  /\ queue.settled >= 1

----------------------------------------------------------------------------
(* StateMachine: properties                                                *)

\* Some declared move permits (from -> to).
Permits(moves, from, to) ==
  \E k \in 1..Len(moves) : from \in moves[k].from /\ to \in moves[k].to

\* C2: setState(s) with s different from the current state raises INVALID_MOVE
\* whenever no declared move has s among its destinations or no declared move
\* permits (current -> s); the state is then what it was before the call and
\* neither the 'state' event nor the event named s has been emitted.
C2_InvalidMoveRejected ==
  (/\ lastSet.called
   /\ lastSet.target # lastSet.prev
   /\ \/ ~validTo(validMoves, lastSet.target)
      \/ ~Permits(validMoves, lastSet.prev, lastSet.target))
  => /\ lastSet.error = "INVALID_MOVE"
     /\ state = lastSet.prev
     /\ lastSet.commits = 0
     /\ lastSet.emitted = <<>>

\* Both ways of failing have happened: a destination no move declares, and a
\* declared destination that no move permits from the current state (here from
\* a state that was itself reached by a move).
C2_Witness_UndeclaredDestination ==
  /\ lastSet.called
  /\ lastSet.target # lastSet.prev
  /\ ~validTo(validMoves, lastSet.target)
  /\ lastSet.error = "INVALID_MOVE"

C2_Witness ==
  /\ lastSet.called
  /\ lastSet.prev \in StateNames
  /\ lastSet.target # lastSet.prev
  /\ validTo(validMoves, lastSet.target)
  /\ ~Permits(validMoves, lastSet.prev, lastSet.target)
  /\ lastSet.error = "INVALID_MOVE"
  /\ state = lastSet.prev

\* C3: every successful setState(s, ...args) that changes the state commits the
\* new state exactly once and emits exactly one 'state' event carrying
\* (s, previous state) followed by exactly one event named s carrying args.
C3_ExactlyOneCommit ==
  (/\ lastSet.called
   /\ lastSet.error = "none"
   /\ lastSet.target # lastSet.prev)
  => /\ state = lastSet.target
     /\ lastSet.commits = 1
     /\ lastSet.emitted = << Event("state", <<lastSet.target, lastSet.prev>>),
                             Event(lastSet.target, lastSet.args) >>

----------------------------------------------------------------------------
(* Test: properties                                                        *)

\* The work of the test settles before / after the timeout elapses.
WorkBeforeTimeout ==
  \/ test.testFn.kind \in {"returns", "throws"}
  \/ /\ test.testFn.delay # Never
     /\ test.testFn.delay < test.options.timeout

TimeoutBeforeWork ==
  /\ test.testFn.kind = "promise"
  /\ \/ test.testFn.delay = Never
     \/ test.options.timeout < test.testFn.delay

\* C10: Test.run() with timeout T. If the result of the work function settles
\* before T elapses, then from the moment it has settled the promise of run()
\* is settled with that result (fulfilled with the resolved value), also after
\* the timer has fired later; if T elapses first, then from the moment the
\* timer has fired the promise of run() is rejected with the timeout error
\* whose message is built from T, also after the work has completed later.
C10_RunSettlesWithRaceWinner ==
  run.called =>
    /\ (WorkBeforeTimeout /\ run.testFnResult.status # "pending")
         => /\ run.promise = run.testFnResult
            /\ test.testFn.kind # "throws" => run.promise = Outcome(test.testFn)
    /\ (TimeoutBeforeWork /\ run.timer = "fired")
         => /\ run.promise = Rejected(TimeoutError(test.options.timeout))
            /\ run.promise.reason.ms = test.options.timeout

\* The timeout won the race and the work completed, resolving, afterwards.
C10_Witness ==
  /\ run.called
  /\ TimeoutBeforeWork
  /\ run.timer = "fired"
  /\ run.testFnResult.status = "fulfilled"
  /\ run.promise.status = "rejected"

\* The work won the race, resolving, and the timer fired afterwards.
C10_Witness_TimerFiresLate ==
  /\ run.called
  /\ test.testFn.kind = "promise"
  /\ test.testFn.delay > 0
  /\ WorkBeforeTimeout
  /\ run.timer = "fired"
  /\ run.promise = Fulfilled(test.testFn.value)

----------------------------------------------------------------------------
(* TestRunnerCore: properties                                              *)

Settled(n) == nodes[n].run \in {"fulfilled", "rejected"}

\* The root is a group with two leaf tests, one of which failed and the other
\* passed.
OneFailingOnePassingLeaf ==
  /\ Len(tom) = 3
  /\ tom[Root].kind = "group"
  /\ \A c \in {2, 3} : tom[c].parent = Root /\ tom[c].kind = "test"
  /\ \E c, d \in {2, 3} : /\ nodes[c].run = "rejected"
                          /\ nodes[d].run = "fulfilled"

\* C4: when the start() call on a pending runner has completed, the state of
\* the runner is 'fail' if the run() of the root or of any descendant has
\* rejected and 'pass' otherwise; for a root with one failing and one passing
\* leaf the state is 'fail' and the stats are pass = 1, fail = 1, skip = 0.
C4_FailIffSomeRunRejected ==
  runner.pc = "done" =>
    /\ state = IF \E n \in 1..Len(tom) : nodes[n].run = "rejected"
               THEN "fail" ELSE "pass"
    /\ OneFailingOnePassingLeaf =>
         /\ state = "fail"
         /\ runner.stats.pass = 1
         /\ runner.stats.fail = 1
         /\ runner.stats.skip = 0

C4_Witness ==
  /\ runner.pc = "done"
  /\ OneFailingOnePassingLeaf
  /\ state = "fail"

\* Something start() waits for is outstanding: the init hook of the view, a
\* run() that has not settled, or a timer of runTomNode that has not fired.
Outstanding ==
  \/ runner.pc = "init"
  \/ \E n \in 1..Len(tom) : nodes[n].run = "running"
  \/ \E n \in 1..Len(tom) : nodes[n].level = "scheduled"

\* start() has been called and waits although nothing is outstanding.
StartStuck == runner.promise = "pending" /\ ~Outstanding

\* C5: for every tree, also when tests fail, one start() call emits 'start'
\* exactly once and later 'end' exactly once, and 'end' only after the run()
\* of every node has settled and after ended has been set to true: neither is
\* emitted twice, 'end' is emitted with 'start' emitted, ended set and no
\* run() unsettled, a start() call that has completed has emitted both, and
\* a start() call that has not is never left with nothing to wait for.
C5_StartOnceThenEndOnce ==
  /\ runner.emitted.start <= 1
  /\ runner.emitted.end <= 1
  /\ runner.promise # "none" => runner.pc = "init" \/ runner.emitted.start = 1
  /\ runner.emitted.end = 1 =>
       /\ runner.emitted.start = 1
       /\ runner.atEnd.ended
       /\ runner.atEnd.running = {}
       /\ runner.ended
       /\ \A n \in 1..Len(tom) : Settled(n)
  /\ runner.pc = "done" => runner.emitted.end = 1
  /\ ~StartStuck

\* 'end' has been emitted for a tree of a failed test and a child below it.
C5_Witness ==
  /\ runner.emitted.end = 1
  /\ runner.emitted.start = 1
  /\ \E n \in 2..Len(tom) : nodes[n].run = "rejected"
  /\ \E n \in 2..Len(tom) : tom[n].parent # Root

\* C6: a rejection of the run() of a node never reaches the caller of start():
\* the promise of the first start() call never rejects, however many tests
\* fail; it stays pending only while a run() or a timer is outstanding, and
\* when it has fulfilled every node of the tree, the siblings and descendants
\* of failed nodes included, has been run.
C6_StartFulfilsAndAllAreRun ==
  /\ runner.promise # "rejected"
  /\ runner.promise = "fulfilled" => \A n \in 1..Len(tom) : Settled(n)
  /\ runner.promise = "pending" => Outstanding

\* start() has fulfilled although the root and every other node failed, the
\* failed nodes having a sibling or a descendant.
C6_Witness ==
  /\ runner.promise = "fulfilled"
  /\ Len(tom) = 3
  /\ \A n \in 1..Len(tom) : nodes[n].run = "rejected"

\* C11: after Test.run() has settled, the state of the test is 'passed' if and
\* only if run() fulfilled and 'failed' if run() rejected, whether by a
\* synchronous throw, a rejected promise or the timeout; it is never 'passed'
\* for a run that rejected.
C11_StateFollowsOutcome ==
  (run.called /\ run.promise.status # "pending") =>
    /\ test.state = "passed" <=> run.promise.status = "fulfilled"
    /\ run.promise.status = "rejected" => test.state = "failed"

\* C12: if the work function throws synchronously, Test.run() rejects with
\* the thrown error at once, in the turn of the call and before any time has
\* passed, and the timer firing later does not replace that error.
C12_SyncThrowRejectsAtOnce ==
  (run.called /\ test.testFn.kind = "throws") =>
    run.promise = Rejected(Error(test.testFn.value, 0))

\* The work function threw, and the timer has fired since.
C12_Witness ==
  /\ run.called
  /\ test.testFn.kind = "throws"
  /\ run.timer = "fired"
  /\ run.raceTimeout.status = "rejected"
  /\ run.promise = Rejected(Error(test.testFn.value, 0))

----------------------------------------------------------------------------
(* Queue: further properties                                               *)

\* The jobs process() has called, as a set.
Started == {queue.started[k] : k \in 1..Len(queue.started)}

\* C13: during Queue.process() every job thunk of the list is invoked at most
\* once, in whatever order the jobs settle and whether they fulfil or fail:
\* no job occurs twice among the started ones, and a started job is no longer
\* in the pending list.
C13_ThunkInvokedAtMostOnce ==
  /\ \A i, k \in 1..Len(queue.started) :
       i # k => queue.started[i] # queue.started[k]
  /\ \A k \in 1..Len(queue.pending) : queue.pending[k] \notin Started
  /\ Len(queue.started) <= Len(jobs)

\* Three or more jobs under a ceiling of 2 have all been started and have
\* settled, one of them failing.
C13_Witness ==
  /\ processing = "fulfilled"
  /\ Len(jobs) >= 3
  /\ queue.max = 2
  /\ Len(queue.started) = Len(jobs)
  /\ \E j \in 1..Len(jobs) : jobs[j] = "failed"

\* C14: the future returned by Queue.process() never rejects: a job's failure
\* is captured, the in-flight count goes down with it, the pending jobs are
\* still started (a free slot is never left while jobs are pending), and
\* process() has fulfilled only when every job, the failed ones' siblings
\* included, has been started and has settled.
C14_ProcessNeverRejects ==
  /\ processing # "rejected"
  /\ queue.inflight = Cardinality(InFlight)
  /\ processing = "running" =>
       (queue.pending # <<>> => queue.inflight = queue.max)
  /\ processing = "fulfilled" =>
       \A j \in 1..Len(jobs) : jobs[j] \in {"fulfilled", "failed"}

\* The first job of a queue with ceiling 1 has failed and process() has
\* fulfilled after the jobs behind it.
C14_Witness ==
  /\ processing = "fulfilled"
  /\ queue.max = 1
  /\ Len(jobs) >= 2
  /\ jobs[1] = "failed"
  /\ jobs[2] = "fulfilled"

\* C16: Queue.process() starts the jobs in the order of the list: the started
\* jobs are in increasing order, so for i < j job j is never started before
\* job i, in whatever order the jobs in flight settle.
C16_StartedInListOrder ==
  /\ \A i, k \in 1..Len(queue.started) :
       i < k => queue.started[i] < queue.started[k]
  /\ \A j \in Started : \A i \in 1..j : i \in Started

\* The second job has settled while the first is still in flight, and the
\* third has been started in its place.
C16_Witness ==
  /\ Len(jobs) >= 3
  /\ jobs[1] = "running"
  /\ jobs[2] \in {"fulfilled", "failed"}
  /\ jobs[3] = "running"
  /\ queue.max = 2

\* process() has settled only with every job started and settled.
SettlesAfterAllJobs ==
  processing \in {"fulfilled", "rejected"} =>
    /\ queue.pending = <<>>
    /\ \A j \in 1..Len(jobs) : jobs[j] \in {"fulfilled", "failed"}

\* C15: the future returned by Queue.process() does not settle while a job of
\* the list is pending or in flight; and, every started job settling in the
\* end, once process() has been called every job is eventually started and
\* process() eventually fulfils, at once for an empty list.
C15_ProcessSettlesAfterAllJobs ==
  /\ []SettlesAfterAllJobs
  /\ [][processing = "idle" /\ jobs = <<>> => processing' = "fulfilled"]_vars
  /\ (processing = "running") ~>
       (processing = "fulfilled" /\ Len(queue.started) = Len(jobs))

\* process() has fulfilled for a list longer than the ceiling.
C15_Witness ==
  /\ processing = "fulfilled"
  /\ Len(jobs) > queue.max
  /\ queue.settled = Len(jobs)

\* process() of an empty list has fulfilled.
C15_Witness_EmptyList ==
  /\ processing = "fulfilled"
  /\ jobs = <<>>

----------------------------------------------------------------------------
(* TestRunnerCore: further properties                                      *)

RECURSIVE Descendants(_)
\* The nodes below node n.
Descendants(n) ==
  LET cs == {c \in 1..Len(tom) : tom[c].parent = n} IN
  cs \cup UNION {Descendants(c) : c \in cs}

\* The run() of child c has been invoked, and its run() or the run() of one
\* of its descendants has not settled.
ChildInFlight(c) ==
  /\ nodes[c].run # "idle"
  /\ \E d \in {c} \cup Descendants(c) : ~Settled(d)

ChildrenInFlight(n) ==
  {c \in 1..Len(tom) : tom[c].parent = n /\ ChildInFlight(c)}

\* C17: a node with ceiling N never has more than N of its children in flight
\* (from the invocation of the child's run() until that run() and the runs of
\* all the child's descendants have settled); under a ceiling of 1, three
\* leaf children included, the run() of a child is invoked only after the
\* run() of every child declared before it has settled.
C17_ChildrenInFlightBounded ==
  \A n \in 1..Len(tom) :
    /\ Cardinality(ChildrenInFlight(n)) <= tom[n].maxConcurrency
    /\ tom[n].maxConcurrency = 1 =>
         \A c, d \in 1..Len(tom) :
           (tom[c].parent = n /\ tom[d].parent = n /\ c < d
              /\ nodes[d].run # "idle")
             => /\ Settled(c)
                /\ \A e \in Descendants(c) : Settled(e)

\* A root with ceiling 1 and three leaf children: the first has settled, the
\* second is running and the third has not been run.
C17_Witness ==
  /\ Len(tom) = 4
  /\ tom[Root].maxConcurrency = 1
  /\ \A c \in 2..4 : tom[c].parent = Root
  /\ Settled(2)
  /\ nodes[3].run = "running"
  /\ nodes[4].run = "idle"

\* The runs of states a TestRunnerCore may have gone through.
CoreHistories ==
  { <<"pending">>, <<"pending", "in-progress">>,
    <<"pending", "in-progress", "pass">>,
    <<"pending", "in-progress", "fail">> }

\* C18: in every reachable state the state of the TestRunnerCore is one of
\* pending, in-progress, pass, fail, and the states it has gone through are a
\* prefix of pending -> in-progress -> (pass | fail): pass and fail are
\* final, also when start() is called again.
C18_StatesArePrefixOfLifecycle ==
  /\ state \in {"pending", "in-progress", "pass", "fail"}
  /\ history \in CoreHistories
  /\ state = history[Len(history)]

\* start() has been called again on a runner that had passed.
C18_Witness ==
  /\ history = <<"pending", "in-progress", "pass">>
  /\ runner.later = <<"rejected">>

\* start() has been called again on a runner that had failed.
C18_Witness_AfterFail ==
  /\ history = <<"pending", "in-progress", "fail">>
  /\ runner.later = <<"rejected">>

----------------------------------------------------------------------------
(* StateMachine: further properties                                        *)

\* C19: after any sequence of setState calls, successful or failing, the
\* current state is the initial state or a state that some declared move has
\* as a destination, and a call that has changed the state has changed it
\* along a declared (from -> to) move, to the state it was called with.
C19_StateReachedByDeclaredMove ==
  /\ state = Undefined \/ validTo(validMoves, state)
  /\ (lastSet.called /\ state # lastSet.prev) =>
       /\ Permits(validMoves, lastSet.prev, state)
       /\ state = lastSet.target
       /\ lastSet.error = "none"

\* A call has failed in a state that an earlier call had reached by a move.
C19_Witness ==
  /\ lastSet.called
  /\ lastSet.error = "INVALID_MOVE"
  /\ validTo(validMoves, lastSet.target)
  /\ state \in StateNames
  /\ state = lastSet.prev

\* C20: setState(s) with s the current state is a no-op: the state is
\* unchanged, neither the 'state' event nor the event named s is emitted and
\* no error is raised, also when no declared move has s as a destination.
C20_SameStateIsNoOp ==
  (lastSet.called /\ lastSet.target = lastSet.prev) =>
    /\ state = lastSet.prev
    /\ lastSet.emitted = <<>>
    /\ lastSet.commits = 0
    /\ lastSet.error = "none"

\* setState was called with the current state, which no move has as a
\* destination.
C20_Witness ==
  /\ lastSet.called
  /\ lastSet.target = lastSet.prev
  /\ ~validTo(validMoves, lastSet.target)
  /\ lastSet.error = "none"

\* setState was called with the current state, for which a move from the
\* state to itself is declared.
C20_Witness_SelfMove ==
  /\ lastSet.called
  /\ lastSet.target = lastSet.prev
  /\ Permits(validMoves, lastSet.prev, lastSet.target)
  /\ lastSet.error = "none"

\* The Stats field that the handler of a tree event counts in.
Counter(signal) ==
  CASE signal = "pass"    -> "pass"
    [] signal = "fail"    -> "fail"
    [] signal = "skipped" -> "skip"
    [] signal = "ignored" -> "ignore"

\* The steps hd are those of one handler of the tree event signal that ran
\* with the counters before: the counter goes up by one and no other one
\* changes, then the runner event is emitted with the counters as they are
\* then, then the callback of the view, if there is a view, is called.
HandledInOrder(hd, signal, before, view) ==
  /\ Len(hd) = IF view THEN 3 ELSE 2
  /\ hd[1].op = "count"
  /\ hd[1].stats[Counter(signal)] = before[Counter(signal)] + 1
  /\ \A f \in DOMAIN before \ {Counter(signal)} : hd[1].stats[f] = before[f]
  /\ hd[2].op = "emit"
  /\ hd[2].name = RunnerEvent(signal)
  /\ hd[2].stats = hd[1].stats
  /\ view => /\ hd[3].op = "view"
             /\ hd[3].name = ViewCallback(signal)

\* C21: for each tree event pass, fail, skipped or ignored, the runner
\* increments the matching Stats counter by exactly one before it emits the
\* runner event (test-pass, test-fail, test-skip, test-ignore), so a listener
\* of the runner event sees the incremented counter; the matching callback of
\* the view, if there is one, is called after the runner event was emitted.
C21_CountThenEmitThenView ==
  [][\A n \in NodeIds, signal \in {"pass", "fail", "skipped", "ignored"} :
       NodeSettles(n, signal) =>
         HandledInOrder(runner'.handler, signal, runner.stats,
                        runner.options.view # "none")]_vars

\* A test failed under a runner with a view: the failure was counted, then
\* 'test-fail' was emitted, then the view's testFail was called.
C21_Witness ==
  /\ runner.options.view # "none"
  /\ Len(runner.handler) = 3
  /\ runner.handler[1] = Step("count", "fail", runner.stats)
  /\ runner.handler[2].name = "test-fail"
  /\ runner.handler[3].name = "testFail"
  /\ runner.stats.fail = 1

\* The counters of stats are the numbers of runner events in emitted.
CountsEvents(stats, emitted) ==
  \A signal \in {"pass", "fail", "skipped", "ignored"} :
    stats[Counter(signal)] = emitted[RunnerEvent(signal)]

\* C22: in every reachable state of a run the Stats counters pass, fail, skip
\* and ignore each equal the number of runner events of that kind emitted so
\* far and no step decreases any of them, so the Stats carried by 'end' count
\* every outcome reported during the run.
C22_StatsCountRunnerEvents ==
  /\ [](/\ CountsEvents(runner.stats, runner.emitted)
        /\ runner.atEnd.emitted => CountsEvents(runner.atEnd.stats, runner.emitted))
  /\ [][\A signal \in {"pass", "fail", "skipped", "ignored"} :
          runner'.stats[Counter(signal)] >= runner.stats[Counter(signal)]]_vars

\* 'end' was emitted after a run in which a test passed, a test was skipped
\* and the root was ignored.
C22_Witness ==
  /\ runner.atEnd.emitted
  /\ runner.atEnd.stats.pass = 1
  /\ runner.atEnd.stats.skip = 1
  /\ runner.atEnd.stats.ignore = 1
  /\ runner.emitted["test-skip"] = 1

\* One start() call on the tree goes pending -> in-progress -> pass, emits
\* 'start' with count 0 and then 'end' with Stats whose total is 0, and its
\* promise fulfils.
StartsAndPassesWithNoTests ==
  /\ \E k \in 1..3 : history = SubSeq(<<"pending", "in-progress", "pass">>, 1, k)
  /\ runner.atStart.emitted =>
       /\ runner.atStart.count = 0
       /\ runner.atStart.state = "in-progress"
       /\ runner.emitted.start = 1
  /\ runner.atEnd.emitted =>
       /\ runner.atStart.emitted
       /\ runner.atEnd.state = "pass"
       /\ runner.atEnd.stats.total = 0
       /\ runner.emitted["end"] = 1
  /\ runner.pc = "done" =>
       /\ history = <<"pending", "in-progress", "pass">>
       /\ runner.atEnd.emitted
       /\ runner.promise = "fulfilled"

\* C23, as stated: for a tree with no children, start() goes pending ->
\* in-progress -> pass, emits start with count 0 and then end with a Stats
\* whose total is 0, and its promise fulfils.
C23_ChildlessTreePasses ==
  Len(tom) = 1 => StartsAndPassesWithNoTests

\* C23, amended: for a tree with no children whose root has no test function,
\* start() goes pending -> in-progress -> pass, emits start with count 0 and
\* then end with a Stats whose total is 0, and its promise fulfils.
C23_ChildlessGroupPasses ==
  (Len(tom) = 1 /\ tom[Root].kind = "group") => StartsAndPassesWithNoTests

\* The start() call on a lone root without a test function has completed.
C23_Witness ==
  /\ Len(tom) = 1
  /\ tom[Root].kind = "group"
  /\ runner.pc = "done"
  /\ runner.promise = "fulfilled"
  /\ runner.atEnd.emitted
  /\ state = "pass"

\* The run() of node n has been invoked.
Invoked(S, n) == S[n].run # "idle"

\* C24: for every node n of the tree, n.run() is invoked before the run() of
\* any child of n, and the run() of the root has settled before the run() of
\* any child of the root is invoked. (That children of different sibling
\* nodes interleave is what the witnesses below reach.)
C24_ParentRunsBeforeChildren ==
  [][\A c \in NodeIds :
       (c \in 2..Len(tom) /\ ~Invoked(nodes, c) /\ Invoked(nodes', c)) =>
          /\ Invoked(nodes, tom[c].parent)
          /\ tom[c].parent = Root => Settled(Root)]_vars

\* Two branches below the root, each with one test: the test of the second
\* branch has settled while the test of the first branch is still running.
C24_Witness ==
  /\ Len(tom) = 5
  /\ tom[4].parent = 2 /\ tom[5].parent = 3
  /\ nodes[4].run = "running"
  /\ Settled(5)

\* The other order: the test of the first branch has settled while the test of
\* the second branch is still running.
C24_Witness_FirstBranchFirst ==
  /\ Len(tom) = 5
  /\ tom[4].parent = 2 /\ tom[5].parent = 3
  /\ Settled(4)
  /\ nodes[5].run = "running"

\* The test below a branch is running before the run() of the branch has
\* settled.
C24_Witness_ChildBeforeParentSettles ==
  /\ Len(tom) = 5
  /\ nodes[2].run = "running"
  /\ nodes[4].run = "running"

\* What the calls of one emission have done, from the emitter the client
\* called up to the emitter of the call that returned last.
Levels == Append(lastEmit.path, [em    |-> lastEmit.em,
                                 snap  |-> lastEmit.snap,
                                 calls |-> lastEmit.calls])

\* C25: when an emitter that has a parent emits E, its own matching listeners
\* are all invoked first, then the matching listeners of its parent, then
\* those of each higher ancestor in turn up to the root; every matching
\* listener of every ancestor is invoked exactly once per emit. The event has
\* reached the root when the emit call returns.
C25_BubblesUpInOrder ==
  /\ (lastEmit.done /\ stack = <<>>) => parent[lastEmit.em] = 0
  /\ lastEmit.done =>
       /\ \A k \in 1..(Len(Levels) - 1) : parent[Levels[k].em] = Levels[k + 1].em
       /\ \A k \in 1..Len(Levels) :
            Levels[k].calls =
              ExpectedCalls(Levels[k].snap, lastEmit.name, lastEmit.args)

\* An emit of E from the lowest emitter of a chain of three has returned: a
\* listener was invoked on each of the three emitters.
C25_Witness ==
  /\ lastEmit.done
  /\ stack = <<>>
  /\ Len(Levels) = 3
  /\ Levels[1].em = 1
  /\ \A k \in 1..3 : Len(Levels[k].calls) = 1

\* The runner ru with nothing logged, with options.debug and without. Two
\* runners that differ in options.debug and the log alone have the same twins.
Twins(ru) ==
  {[ru EXCEPT !.options.debug = d, !.log = 0] : d \in BOOLEAN}

\* What a run shows of itself apart from options.debug and the log: the state
\* of the runner, the events emitted and the steps of the last handler, the
\* Stats, where start() is and how it has settled, and the nodes of the tree.
Observed(next) ==
  [state  |-> next.state,
   nodes  |-> next.nodes,
   runner |-> [next.runner EXCEPT !.options.debug = FALSE, !.log = 0]]

\* C26: for the same tree and the same test outcomes, a run with
\* options.debug = true and a run with options.debug = false go through the
\* same runner states, emit the same runner events in the same order, end with
\* the same Stats and settle start() the same way. Two such runs begin in
\* states that differ in options.debug alone. In every reachable state the
\* steps that can be taken, and what each of them leads to apart from
\* options.debug and the log, are those of the twins of the state; so from
\* two states that differ in options.debug and the log alone the same steps
\* can be taken, and lead to states that again differ in these alone.
\* Without debug nothing is logged.
C26_DebugOnlyLogs ==
  /\ ~runner.options.debug => runner.log = 0
  /\ \A tw \in Twins(runner) :
       /\ CanStart(tw) = CanStart(runner)
       /\ CanStart(runner) =>
            Observed(StartCalled(state, tw, nodes))
              = Observed(StartCalled(state, runner, nodes))
       /\ AwaitsInit(tw) = AwaitsInit(runner)
       /\ AwaitsInit(runner) =>
            Observed(StartBody(state, tw, nodes))
              = Observed(StartBody(state, runner, nodes))
       /\ \A n \in NodeIds, signal \in {"pass", "fail", "skipped", "ignored"} :
            CanSettle(nodes, n, signal) =>
              Observed(NodeSettled(state, tw, nodes, n, signal))
                = Observed(NodeSettled(state, runner, nodes, n, signal))
       /\ \A n \in NodeIds :
            CanTick(nodes, n) =>
              Observed(LevelTicked(state, tw, nodes, n))
                = Observed(LevelTicked(state, runner, nodes, n))
       /\ CanStartAgain(tw) = CanStartAgain(runner)
       /\ CanStartAgain(runner) =>
            Observed(StartedAgain(state, tw, nodes))
              = Observed(StartedAgain(state, runner, nodes))

\* A run with options.debug has logged the error of a failed test and has
\* completed in 'fail'.
C26_Witness ==
  /\ runner.options.debug
  /\ runner.log = 1
  /\ runner.stats.fail = 1
  /\ runner.pc = "done"
  /\ state = "fail"

----------------------------------------------------------------------------
(* TestRunner (dist/tests.js): properties                                  *)

\* The run() calls of the runner, in the order they were made.
RunLog == SelectSeq(runner.log, LAMBDA c : c.op = "run")

\* The node n and the nodes above it.
UpFrom(n) == {n} \cup {m \in 1..Len(tom) : n \in Descendants(m)}

\* Node a is declared before node b: a is above b, or a is in the subtree of
\* an earlier child than b is.
DeclaredBefore(a, b) ==
  \/ b \in Descendants(a)
  \/ \E x \in UpFrom(a), y \in UpFrom(b) :
       /\ tom[x].parent = tom[y].parent
       /\ x < y

\* C27: start() invokes run() on every node of the tree once, in declaration
\* order, also when the test function of an earlier test throws, and the
\* promise it returns fulfils after all of them have settled: it is never
\* rejected, and is fulfilled once start() is through.
C27_RunsEveryTestAndFulfils ==
  runner.pc # "constructed" =>
    /\ Len(RunLog) = Len(tom)
    /\ RunNodes(runner.log) = 1..Len(tom)
    /\ \A i, j \in 1..Len(RunLog) :
         i < j => DeclaredBefore(RunLog[i].node, RunLog[j].node)
    /\ \A n \in 1..Len(tom) :
         tom[n].kind = "test" =>
           \E k \in 1..Len(runner.log) : runner.log[k] = Called("testFn", n)
    /\ runner.promise \in {"pending", "fulfilled"}
    /\ runner.promise = "fulfilled" => \A n \in 1..Len(tom) : Settled(n)
    /\ runner.pc = "done" => runner.promise = "fulfilled"

\* The first of two tests below a root threw, the second was run after it and
\* passed, and start() has fulfilled.
C27_Witness ==
  /\ Len(tom) = 3
  /\ tom[2].parent = Root /\ tom[3].parent = Root
  /\ tom[2].kind = "test" /\ tom[3].kind = "test"
  /\ nodes[2].run = "rejected"
  /\ nodes[3].run = "fulfilled"
  /\ \E i, j \in 1..Len(runner.log) :
       /\ i < j
       /\ runner.log[i] = Called("testFn", 2)
       /\ runner.log[j] = Called("testFn", 3)
  /\ runner.promise = "fulfilled"

\* The places in the log of the runner where op was called.
CalledAt(op) == {k \in 1..Len(runner.log) : runner.log[k].op = op}

\* C28: the runner is in state 'pending' after construction, moves to 'start'
\* when start() is called and to 'end' only after the run() of every node has
\* settled; the start hook of the view is called before any test function
\* runs and its end hook after all test functions have run, each exactly once.
C28_PendingStartEndWithViewHooks ==
  /\ \E k \in 1..3 : history = SubSeq(<<"pending", "start", "end">>, 1, k)
  /\ runner.pc = "constructed" => state = "pending" /\ runner.log = <<>>
  /\ runner.pc = "running" => state = "start"
  /\ runner.pc = "done" => state = "end"
  /\ state = "end" => \A n \in 1..Len(tom) : Settled(n)
  /\ state # "pending" =>
       /\ Cardinality(CalledAt("view.start")) = 1
       /\ \A k \in CalledAt("view.start"), t \in CalledAt("testFn") : k < t
  /\ Cardinality(CalledAt("view.end")) = IF state = "end" THEN 1 ELSE 0
  /\ \A k \in CalledAt("view.end") :
       /\ \A t \in CalledAt("testFn") : t < k
       /\ \A n \in 1..Len(tom) :
            tom[n].kind = "test" =>
              \E t \in CalledAt("testFn") : runner.log[t].node = n

\* A runner with two tests has ended: the view's start hook, the two test
\* functions and the view's end hook were called, in this order.
C28_Witness ==
  /\ state = "end"
  /\ history = <<"pending", "start", "end">>
  /\ Cardinality(CalledAt("testFn")) = 2
  /\ runner.log[1] = Called("view.start", 0)
  /\ runner.log[Len(runner.log)] = Called("view.end", 0)

----------------------------------------------------------------------------
(* Emitter: properties of once listeners                                   *)

\* No handler has removed a listener or emitted: all that has been done to
\* the emitters are on(), removeEventListener() and emit() calls of a client.
HandlersReturn == lastEmit.removed = 0 /\ emitLog.nested = 0

\* C29: emit(F) for an event name F that a once listener does not match (the
\* listener was registered for E with E # F and is not a wildcard) neither
\* invokes nor removes that listener and leaves the listener list unchanged:
\* a later emit(E) still invokes it exactly once.
C29_UnmatchedOnceListenerKept ==
  /\ (lastEmit.done /\ HandlersReturn) =>
       /\ \A k \in 1..Len(lastEmit.snap) :
            (lastEmit.snap[k].once /\ ~Matches(lastEmit.snap[k], lastEmit.name)) =>
               /\ \E j \in 1..Len(lastEmit.after) :
                    lastEmit.after[j] = lastEmit.snap[k]
               /\ \A c \in 1..Len(lastEmit.calls) :
                    lastEmit.calls[c].id # lastEmit.snap[k].id
       /\ (\A k \in 1..Len(lastEmit.snap) :
             ~(lastEmit.snap[k].once /\ Matches(lastEmit.snap[k], lastEmit.name)))
          => lastEmit.after = lastEmit.snap
  /\ \A id \in 1..Len(registry) :
       (registry[id].once /\ emitLog.removes = 0 /\ emitLog.nested = 0) =>
          /\ (seen[id] = 0 /\ ~InProgressAt(registry[id].em)) =>
               (Present(id) /\ invoked[id] = 0)
          /\ seen[id] >= 1 => invoked[id] = 1

\* The identities of the listeners of the list ls.
Ids(ls) == {ls[k].id : k \in 1..Len(ls)}

\* C30: the listeners that emit itself removes are exactly the once listeners
\* it invoked during that emission: its deferred removal step never removes a
\* listener that is not once or that it did not invoke, also when a handler
\* or a nested emit has already removed one of the once listeners before the
\* step runs.
C30_EmitRemovesOnlyInvokedOnce ==
  lastEmit.done =>
    LET gone        == Ids(lastEmit.before) \ Ids(lastEmit.after)
        invokedOnce == {lastEmit.calls[c].id : c \in
                          {d \in 1..Len(lastEmit.calls) :
                             registry[lastEmit.calls[d].id].once}}
    IN  gone = invokedOnce \cap Ids(lastEmit.before)

\* C31: a once listener for event E is invoked at most once, also when a
\* handler running during emit(E) calls emit(E) again on the same emitter
\* before the outer emit has returned. (No listener is removed by a handler or
\* a client.)
C31_OnceInvokedAtMostOnceReentrant ==
  \A id \in 1..Len(registry) :
    (registry[id].once /\ emitLog.removes = 0) => invoked[id] <= 1

\* C32: over the life of one TestRunnerCore, 'start' and 'end' are each
\* emitted at most once and the run() of every node is invoked at most once,
\* however many times start() is called, also when it is called again while
\* the first call is in progress or after it has finished.
C32_StartsAndRunsAtMostOnce ==
  /\ runner.emitted.start <= 1
  /\ runner.emitted["end"] <= 1
  /\ runner.reran = 0


\* An assignment to the state of the runner has thrown: start() has rejected
\* (in-progress at the start, fail in the failure handler of the root, pass at
\* the end) or the job of a child has rejected (fail in its failure handler,
\* the only way such a job rejects).
Raised ==
  \/ runner.promise = "rejected"
  \/ \E n \in 1..Len(tom) : nodes[n].job = "rejected"

\* C33: during a single start() on a pending TestRunnerCore no assignment to
\* the state made by the runner (in-progress at the start, fail in the failure
\* handlers of the root and of every child, pass at the end) raises an
\* invalid-move error, for every tree, every concurrency ceiling and every
\* interleaving of test outcomes.
C33_SingleStartNeverRaises == runner.later = <<>> => ~Raised

\* A single start() has completed with two failed tests: the second failure
\* handler assigned fail to a runner that had already failed.
C33_Witness ==
  /\ runner.later = <<>>
  /\ runner.pc = "done"
  /\ runner.promise = "fulfilled"
  /\ state = "fail"
  /\ Cardinality({n \in 1..Len(tom) : nodes[n].run = "rejected"}) >= 2


\* The run of the tests is over: no test is running and every test that is
\* not skipped has passed or failed.
TestsOver ==
  \A n \in 1..Len(tom) : nodes[n].run \in
    (IF tom[n].skip THEN {"idle"} ELSE {"fulfilled", "rejected"})

\* The state has moved along 0 -> 1 -> 2; 'end' has been emitted at most once
\* and only when the run was over; once the promise of start() has settled
\* the state is 2 and 'end' has been emitted.
StartedRunEnds ==
  /\ \E k \in 1..3 : history = SubSeq(<<0, 1, 2>>, 1, k)
  /\ Times(runner, "end") <= 1
  /\ Times(runner, "end") = 1 => TestsOver /\ state = 2
  /\ runner.promise \in {"fulfilled", "rejected"} =>
       /\ state = 2
       /\ Times(runner, "end") = 1

\* C34: for every list of registered tests, empty or not, with or without
\* skipped tests, start() of the TestRunner that is an Emitter moves the state
\* 0 -> 1 -> 2 and emits 'end' exactly once, after every test has passed,
\* failed or been skipped, by the time its promise has settled, in the parallel
\* and in the sequential mode alike; a start() call made when the state is not
\* 0 runs no test and emits nothing.
C34_StartRunsTestsAndEnds ==
  /\ []StartedRunEnds
  /\ [][(state # 0 /\ runner'.later # runner.later)
          => /\ runner'.emitted = runner.emitted
             /\ nodes' = nodes
             /\ state' = state]_vars

====
